---- MODULE Spec2Model ----
(***************************************************************************)
(* A model of rsadv, an IPv6 Router Advertisement daemon.                  *)
(*                                                                         *)
(*   Spec     the RA scheduler task of rsadv_server/src/main.rs together   *)
(*            with the producers of its command channel (the RS receiver   *)
(*            task, the reaper's NewConfig) and the shutdown signal.       *)
(*            Time is in milliseconds since the scheduler task started.    *)
(*   SpecCtl  the control codec of rsadv_control/src/lib.rs.               *)
(*   SpecNdp  the NDP wire codec of rsadv_server/src/ndp.rs.               *)
(***************************************************************************)
EXTENDS Integers, Sequences, FiniteSets, TLC

VARIABLES
    \* ---- the scheduler task (main.rs:181-332)
    now,                \* the clock, ms
    cfg,                \* [min, max, mtu]: the configured intervals (seconds) and MTU
    pc,                 \* "start" | "select" | "sleep" | "send" | "done" | "panic"
    last_multicast_ra,  \* Instant, ms
    next_multicast_ra,  \* Instant, ms
    initial_ras_sent,   \* u8
    sleep_ts,           \* the deadline of the sleep of line 232
    out,                \* the RA handed to send_to (line 304), or NoRA
    shutdown,           \* SHUTDOWN is in progress
    cmd_rx,             \* the command channel (line 175)
    \* ---- shared state (main.rs:434-440)
    prefixes,           \* State.prefixes: a set of Prefix records, one per address
    dns_servers,        \* State.dns_servers
    config_changed,     \* State.config_changed: the Notify holds a permit
    \* ---- the reaper task (main.rs:356-429)
    rpc,                \* "wait" | "send" | "add_addr" | "off"
    next_prefix_lifetime, \* Option<Duration>: <<>> or <<ms>>
    rdeadline,          \* when the sleep of line 363 ends
    rclone,             \* the clone of the prefix table taken at line 391
    db,                 \* the Database the reaper saves
    \* ---- what an observer of the control socket and of the reaper sees
    n_ctl,              \* requests applied so far
    last_req,           \* the request applied last
    before_req,         \* the prefix table before that request
    n_pass,             \* reaper passes completed so far
    mutated,            \* a request was applied since the last pass began
    quiet,              \* the last pass began with nothing mutated and removed nothing
    after_pass,         \* prefix table and Database at the end of the last pass
    \* ---- what an observer of the link sees
    last_ra,            \* the RA sent last, with the time it was sent
    prev_mcast,         \* when the last RA to all-nodes was sent, -1: never
    mcast_since_cfg,    \* RAs to all-nodes since startup / the last NewConfig
    zero_mcast,         \* RAs to all-nodes with RouterLifetime 0 sent so far
    n_final,            \* RAs built while the shutdown was in progress, sent so far
    n_ras,              \* RAs sent so far
    n_rs,               \* solicitations the receiver has forwarded so far
    n_cfg,              \* NewConfig commands the reaper has sent so far
    \* ---- the codecs (SpecCtl, SpecNdp)
    cph,                \* "idle" | "input" | "encoded" | "decoded" | "received" | "returned"
    cin,                \* the value to encode
    cbuf,               \* the bytes
    cres                \* the result of decode

schedVars == <<now, cfg, pc, last_multicast_ra, next_multicast_ra,
               initial_ras_sent, sleep_ts, out, shutdown, cmd_rx>>
reaperVars == <<rpc, next_prefix_lifetime, rdeadline, rclone, db>>
ctlObsVars == <<n_ctl, last_req, before_req, n_pass, mutated, quiet, after_pass>>
stateVars == <<prefixes, dns_servers, config_changed, reaperVars, ctlObsVars>>
obsVars   == <<last_ra, prev_mcast, mcast_since_cfg, zero_mcast, n_final, n_ras, n_rs, n_cfg>>
codecVars == <<cph, cin, cbuf, cres>>
vars      == <<schedVars, stateVars, obsVars, codecVars>>

Min(a, b) == IF a <= b THEN a ELSE b
Max(a, b) == IF a >= b THEN a ELSE b

(***************************************************************************)
(* Addresses: Ipv6Addr as its 16 octets.                                   *)
(***************************************************************************)
Ipv6AddrNew(a, b, c, d, e, f, g, h) ==
    <<a \div 256, a % 256, b \div 256, b % 256, c \div 256, c % 256,
      d \div 256, d % 256, e \div 256, e % 256, f \div 256, f % 256,
      g \div 256, g % 256, h \div 256, h % 256>>

UNSPECIFIED         == Ipv6AddrNew(0, 0, 0, 0, 0, 0, 0, 0)
MULTICAST_ALL_NODES == Ipv6AddrNew(65282, 0, 0, 0, 0, 0, 0, 1)
HostAddr            == Ipv6AddrNew(65152, 0, 0, 0, 0, 0, 0, 1)   \* fe80::1
DocPrefix           == Ipv6AddrNew(8193, 3512, 0, 0, 0, 0, 0, 0) \* 2001:db8::

(***************************************************************************)
(* Program constants (main.rs:581-588), in ms.                             *)
(***************************************************************************)
MAX_INITIAL_RTR_ADVERT_INTERVAL == 16000
MAX_INITIAL_RTR_ADVERTISEMENTS  == 3
MAX_FINAL_RTR_ADVERTISEMENTS    == 3
MAX_RA_DELAY_TIME               == 500
MIN_DELAY_BETWEEN_RAS           == 3000
MAX_DELAY_BETWEEN_RAS           == 1800000

(***************************************************************************)
(* Bounds of the model.                                                    *)
(***************************************************************************)
MaxRAs      == 5        \* time stops once this many RAs were sent
MaxRS       == 2        \* solicitations forwarded by the receiver
MaxCfg      == 1        \* NewConfig commands sent by the reaper
FineHorizon == 3000     \* up to here time also advances by AdvanceSteps
ChanCap     == 2        \* capacity of the command channel (512 in main.rs:175)

AdvanceSteps == {1000}

(***************************************************************************)
(* std::time::Duration is a number of ms in the model.                     *)
(***************************************************************************)
as_secs(d)   == d \div 1000
from_secs(n) == n * 1000

(***************************************************************************)
(* Lifetime (rsadv_control/src/lib.rs:265-280).  The control protocol, the *)
(* only source of lifetimes, carries whole seconds: a Lifetime holds the   *)
(* seconds of its Duration, or the seconds from the model's epoch (the     *)
(* start of the daemon) to its SystemTime.                                 *)
(***************************************************************************)
LtDuration(secs) == [tag |-> "Duration", v |-> secs]
LtUntil(secs)    == [tag |-> "Until", v |-> secs]

\* A lifetime that runs out for both variants
durationCountedDown(lt, t) == Max(from_secs(lt.v) - t, 0)

\* Lifetime::duration at time t (ms)
duration(lt, t) ==
    IF lt.tag = "Duration" THEN from_secs(lt.v) ELSE Max(from_secs(lt.v) - t, 0)

(***************************************************************************)
(* The intervals derived from the configuration (main.rs:50-84), in ms.    *)
(***************************************************************************)
max_rtr_adv_interval(c) ==
    IF c.max < 4 THEN 4000
    ELSE IF c.max > 1800 THEN 1800000
    ELSE c.max * 1000

min_rtr_adv_interval(c) ==
    LET mx == max_rtr_adv_interval(c)
        v  == c.min * 1000
    IN  IF v = 0 THEN (IF mx >= 9000 THEN mx \div 3 ELSE mx)
        ELSE IF v < 3000 THEN 3000
        ELSE IF v > (mx * 4) \div 3 THEN (mx * 4) \div 3
        ELSE v

\* A sampler that leaves the range at both ends
UniformSamplesOutside(lo, hi) == {lo - 1, hi + 1}

\* What rng.sample(Uniform::new(lo, hi)) can return: lo <= x < hi.  The model
\* draws the two ends of the range.
UniformSamples(lo, hi) == {lo, hi - 1}

\* rng.gen_range(Duration::ZERO..MAX_RA_DELAY_TIME) (main.rs:212)
DelaySamples == {0, MAX_RA_DELAY_TIME - 1}

(***************************************************************************)
(* Inputs of the scheduler model.                                          *)
(***************************************************************************)
\* config.toml: min_rtr_adv_interval, max_rtr_adv_interval (s), mtu
Configs ==
    { [min |-> 3, max |-> 1800, mtu |-> 1500],
      [min |-> 0, max |-> 1800, mtu |-> 1500],
      [min |-> 0, max |-> 4,    mtu |-> 0] }

\* main.rs:443-448
MkPrefix(a, len, pref, valid) ==
    [prefix |-> a, prefix_length |-> len,
     preferred_lifetime |-> pref, valid_lifetime |-> valid]

\* The prefix tables a persisted snapshot can hold at startup (main.rs:132-160)
DbSnapshots ==
    { {},
      { MkPrefix(DocPrefix, 64, LtDuration(1800), LtDuration(3600)) } }

\* The datagrams the RS receiver can read: source address and decoded packet
Datagrams ==
    { [src |-> s,
       packet |-> [typ |-> "RouterSolicitation", code |-> c, checksum |-> 0,
                   content |-> [kind |-> "RouterSolicitation",
                                source_link_layer_addr |-> l]]] :
        s \in {UNSPECIFIED, HostAddr}, c \in {0, 1}, l \in {<<>>, <<<<2, 0, 0, 0, 0, 1>>>>} }


\* main.rs:591-594.  `at` is not part of the command: it records when the
\* receiver read the solicitation, for the observer.
SendRouterAdvertisement(addr, at) ==
    [kind |-> "SendRouterAdvertisement", addr |-> addr, at |-> at]
NewConfig == [kind |-> "NewConfig"]

is_unspecified(a) == a = UNSPECIFIED

\* main.rs:522-546
router_solicit_is_valid(src, packet) ==
    IF packet.code # 0 THEN FALSE
    ELSE IF packet.content.kind = "RouterSolicitation"
         THEN (IF src = UNSPECIFIED
               THEN packet.content.source_link_layer_addr = <<>>
               ELSE TRUE)
         ELSE FALSE

(***************************************************************************)
(* The RA built at main.rs:244-302 for destination addr.  `by` and `rs_at` *)
(* say which arm of the select produced it and when its solicitation was   *)
(* received; `sd` is what shutdown.is_in_progress() answered at line 245.  *)
(***************************************************************************)
\* Prefix options without the test for an expired valid lifetime
PrefixOptionsUnfiltered(t) ==
    { [prefix |-> p.prefix, prefix_length |-> p.prefix_length,
       on_link |-> TRUE, autonomous |-> TRUE,
       preferred_lifetime |-> duration(p.preferred_lifetime, t),
       valid_lifetime |-> duration(p.valid_lifetime, t)] : p \in prefixes }

PrefixOptions(t) ==
    { [prefix |-> p.prefix, prefix_length |-> p.prefix_length,
       on_link |-> TRUE, autonomous |-> TRUE,
       preferred_lifetime |-> duration(p.preferred_lifetime, t),
       valid_lifetime |-> duration(p.valid_lifetime, t)] :
        p \in { q \in prefixes : duration(q.valid_lifetime, t) # 0 } }

RouterLifetime(sd) ==
    IF sd THEN 0 ELSE 3 * max_rtr_adv_interval(cfg)

\* An RA built from what the reaper copied when it sent NewConfig
BuildRAFromClone(addr, by, rs_at) ==
    [dst |-> addr,
     cur_hop_limit |-> 64, managed |-> FALSE, other |-> FALSE,
     router_lifetime |-> RouterLifetime(shutdown),
     slla |-> TRUE,
     mtu |-> cfg.mtu,
     rdnss |-> { db.dns_servers[i] : i \in DOMAIN db.dns_servers },
     pi |-> { [prefix |-> p.prefix, prefix_length |-> p.prefix_length,
               on_link |-> TRUE, autonomous |-> TRUE,
               preferred_lifetime |-> duration(p.preferred_lifetime, now),
               valid_lifetime |-> duration(p.valid_lifetime, now)] :
                p \in { q \in rclone : duration(q.valid_lifetime, now) # 0 } },
     sd |-> shutdown, by |-> by, rs_at |-> rs_at]

BuildRA(addr, by, rs_at) ==
    [dst |-> addr,
     cur_hop_limit |-> 64, managed |-> FALSE, other |-> FALSE,
     router_lifetime |-> RouterLifetime(shutdown),
     slla |-> TRUE,
     mtu |-> cfg.mtu,
     rdnss |-> dns_servers,
     pi |-> PrefixOptions(now),
     sd |-> shutdown, by |-> by, rs_at |-> rs_at]

\* No RA: nothing is being sent
NoRA ==
    [dst |-> <<>>,
     cur_hop_limit |-> 0, managed |-> FALSE, other |-> FALSE,
     router_lifetime |-> -1, slla |-> FALSE, mtu |-> 0, rdnss |-> {}, pi |-> {},
     sd |-> FALSE, by |-> "none", rs_at |-> -1]

\* The observer before the first RA
NoneSent == [ra |-> NoRA, t |-> -1, gap |-> -1, nth |-> 0]

(***************************************************************************)
(* Init: the state when the tasks are spawned (main.rs:125-192).           *)
(***************************************************************************)
CodecIdle ==
    /\ cph = "idle" /\ cin = <<>> /\ cbuf = <<>> /\ cres = <<>>

\* No request applied yet
NoReq == [kind |-> "none"]

\* Database::default() (main.rs:158), with the dns_servers the reaper fills
EmptyDb == [prefixes |-> <<>>, dns_servers |-> <<>>]

\* The observers of the control socket and of the reaper before any event
CtlObsIdle ==
    /\ n_ctl = 0 /\ last_req = NoReq /\ before_req = {}
    /\ n_pass = 0 /\ mutated = FALSE /\ quiet = FALSE
    /\ after_pass = [prefixes |-> {}, db |-> EmptyDb]

\* Control socket and reaper are abstracted by ReaperNewConfig
ReaperOff ==
    /\ config_changed = FALSE
    /\ rpc = "off" /\ next_prefix_lifetime = <<>> /\ rdeadline = 0
    /\ rclone = {} /\ db = EmptyDb
    /\ CtlObsIdle

Init ==
    /\ now = 0
    /\ cfg \in Configs
    /\ pc = "start"
    /\ last_multicast_ra = 0
    /\ next_multicast_ra = 0
    /\ initial_ras_sent = 0
    /\ sleep_ts = 0
    /\ out = NoRA
    /\ shutdown = FALSE
    /\ cmd_rx = <<>>
    /\ prefixes \in DbSnapshots
    /\ dns_servers = {}
    /\ last_ra = NoneSent
    /\ n_final = 0
    /\ prev_mcast = -1
    /\ mcast_since_cfg = 0
    /\ zero_mcast = 0
    /\ n_ras = 0
    /\ n_rs = 0
    /\ n_cfg = 0
    /\ ReaperOff
    /\ CodecIdle

(***************************************************************************)
(* The scheduler task.                                                     *)
(***************************************************************************)
\* main.rs:182-192.  Uniform::new panics on an empty range; the assertion of
\* line 188 panics in a build with debug assertions and is absent otherwise.
SchedStart ==
    /\ pc = "start"
    /\ pc' \in IF min_rtr_adv_interval(cfg) >= max_rtr_adv_interval(cfg)
                THEN {"panic"}
                ELSE IF ~(min_rtr_adv_interval(cfg) <= MIN_DELAY_BETWEEN_RAS)
                THEN {"panic", "select"}
                ELSE {"select"}
    /\ last_multicast_ra' = now
    /\ next_multicast_ra' = now
    /\ initial_ras_sent' = 0
    /\ UNCHANGED <<now, cfg, sleep_ts, out, shutdown, cmd_rx>>
    /\ UNCHANGED <<stateVars, obsVars, codecVars>>

\* main.rs:202-204: the shutdown arm, polled first
SchedShutdown ==
    /\ pc = "select"
    /\ shutdown
    /\ out' = BuildRA(MULTICAST_ALL_NODES, "shutdown", -1)
    /\ pc' = "send"
    /\ UNCHANGED <<now, cfg, last_multicast_ra, next_multicast_ra,
                   initial_ras_sent, sleep_ts, shutdown, cmd_rx>>
    /\ UNCHANGED <<stateVars, obsVars, codecVars>>

\* main.rs:205-207: sleep_until(next_multicast_ra), polled second
SchedTick ==
    /\ pc = "select"
    /\ ~shutdown
    /\ now >= next_multicast_ra
    /\ out' = BuildRA(MULTICAST_ALL_NODES, "tick", -1)
    /\ pc' = "send"
    /\ UNCHANGED <<now, cfg, last_multicast_ra, next_multicast_ra,
                   initial_ras_sent, sleep_ts, shutdown, cmd_rx>>
    /\ UNCHANGED <<stateVars, obsVars, codecVars>>

\* Instant::elapsed saturates at zero
\* A difference of instants that can be negative
elapsedSigned(t) == now - t

elapsed(t) == Max(now - t, 0)

\* A scheduler that answers every solicitation
NeverDiscard(ts) == FALSE

\* main.rs:217: the solicitation is discarded if its RA would be due after
\* the next multicast RA
Discard(ts) == ts > next_multicast_ra

\* main.rs:208-234: cmd_rx.recv() yields SendRouterAdvertisement(addr)
SchedSolicited ==
    /\ pc = "select"
    /\ ~shutdown
    /\ now < next_multicast_ra
    /\ cmd_rx # <<>>
    /\ Head(cmd_rx).kind = "SendRouterAdvertisement"
    /\ cmd_rx' = Tail(cmd_rx)
    /\ \E delay \in DelaySamples :
        LET addr == Head(cmd_rx).addr
            ts   == now + delay
        IN  IF Discard(ts)
            THEN \* line 217: discard
                 UNCHANGED <<pc, next_multicast_ra, sleep_ts, out>>
            ELSE IF is_unspecified(addr)
            THEN \* lines 223-228
                 LET ra_delay == Max(MIN_DELAY_BETWEEN_RAS - elapsed(last_multicast_ra), 0)
                 IN  /\ next_multicast_ra' = next_multicast_ra + ra_delay + delay
                     /\ UNCHANGED <<pc, sleep_ts, out>>
            ELSE IF ts > now
            THEN \* line 232: sleep_until(ts) suspends the task
                 /\ pc' = "sleep"
                 /\ sleep_ts' = ts
                 /\ out' = [NoRA EXCEPT !.dst = addr, !.rs_at = Head(cmd_rx).at]
                 /\ UNCHANGED next_multicast_ra
            ELSE \* line 232: the deadline has passed, the sleep returns at once
                 /\ pc' = "send"
                 /\ out' = BuildRA(addr, "solicit", Head(cmd_rx).at)
                 /\ UNCHANGED <<next_multicast_ra, sleep_ts>>
    /\ UNCHANGED <<now, cfg, last_multicast_ra, initial_ras_sent, shutdown>>
    /\ UNCHANGED <<stateVars, obsVars, codecVars>>

\* main.rs:232-233: the sleep of a solicited unicast RA ends.  The address and
\* the reception time are those of the command taken at line 208.
SchedWake ==
    /\ pc = "sleep"
    /\ now >= sleep_ts
    /\ out' = BuildRA(out.dst, "solicit", out.rs_at)
    /\ pc' = "send"
    /\ UNCHANGED <<now, cfg, last_multicast_ra, next_multicast_ra,
                   initial_ras_sent, sleep_ts, shutdown, cmd_rx>>
    /\ UNCHANGED <<stateVars, obsVars, codecVars>>

\* main.rs:235-239: cmd_rx.recv() yields NewConfig
SchedNewConfig ==
    /\ pc = "select"
    /\ ~shutdown
    /\ now < next_multicast_ra
    /\ cmd_rx # <<>>
    /\ Head(cmd_rx).kind = "NewConfig"
    /\ cmd_rx' = Tail(cmd_rx)
    /\ next_multicast_ra' = now
    /\ initial_ras_sent' = 0
    /\ mcast_since_cfg' = 0
    /\ out' = BuildRA(MULTICAST_ALL_NODES, "config", -1)
    /\ pc' = "send"
    /\ UNCHANGED <<now, cfg, last_multicast_ra, sleep_ts, shutdown>>
    /\ UNCHANGED <<stateVars, last_ra, prev_mcast, zero_mcast, n_final, n_ras, n_rs, n_cfg, codecVars>>

\* main.rs:304-327: send_to completes and the RA is on the link; then the
\* shutdown check and the update of the schedule, which runs after every RA,
\* whatever its destination.
SchedSent ==
    /\ pc = "send"
    /\ LET mc  == out.dst = MULTICAST_ALL_NODES
           nth == IF mc THEN Min(mcast_since_cfg + 1, MAX_INITIAL_RTR_ADVERTISEMENTS + 1)
                  ELSE mcast_since_cfg
       IN  /\ last_ra' = [ra |-> out, t |-> now,
                          gap |-> IF mc /\ prev_mcast >= 0 THEN now - prev_mcast ELSE -1,
                          nth |-> IF mc THEN nth ELSE 0]
           /\ prev_mcast' = IF mc THEN now ELSE prev_mcast
           /\ mcast_since_cfg' = nth
           /\ zero_mcast' = IF mc /\ out.router_lifetime = 0
                            THEN Min(zero_mcast + 1, MAX_FINAL_RTR_ADVERTISEMENTS + 1)
                            ELSE zero_mcast
    /\ n_final' = IF out.sd THEN Min(n_final + 1, MAX_FINAL_RTR_ADVERTISEMENTS + 1)
                   ELSE n_final
    /\ n_ras' = Min(n_ras + 1, MaxRAs)
    /\ out' = NoRA
    /\ IF shutdown
       THEN \* line 308
            /\ pc' = "done"
            /\ UNCHANGED <<last_multicast_ra, next_multicast_ra, initial_ras_sent>>
       ELSE \E sample \in UniformSamples(min_rtr_adv_interval(cfg), max_rtr_adv_interval(cfg)) :
            LET initial  == initial_ras_sent < MAX_INITIAL_RTR_ADVERTISEMENTS
                interval == IF initial THEN Min(sample, MAX_INITIAL_RTR_ADVERT_INTERVAL)
                            ELSE sample
            IN  /\ initial_ras_sent' = IF initial THEN initial_ras_sent + 1
                                       ELSE initial_ras_sent
                /\ last_multicast_ra' = next_multicast_ra
                /\ next_multicast_ra' = next_multicast_ra + interval
                \* lines 322-323, in a build with debug assertions
                /\ pc' \in IF interval >= MIN_DELAY_BETWEEN_RAS
                              /\ interval <= MAX_DELAY_BETWEEN_RAS
                           THEN {"select"} ELSE {"select", "panic"}
    /\ UNCHANGED <<now, cfg, sleep_ts, shutdown, cmd_rx>>
    /\ UNCHANGED <<stateVars, n_rs, n_cfg, codecVars>>

(***************************************************************************)
(* The producers of the command channel, and the shutdown signal.          *)
(***************************************************************************)
\* main.rs:335-354: the RS receiver reads a datagram; a valid solicitation
\* is sent into the channel (send waits while the channel is full).
RecvRS ==
    /\ pc \in {"select", "sleep", "send"}
    /\ \E d \in Datagrams :
        IF router_solicit_is_valid(d.src, d.packet)
        THEN /\ Len(cmd_rx) < ChanCap
             /\ n_rs < MaxRS
             /\ cmd_rx' = Append(cmd_rx, SendRouterAdvertisement(d.src, now))
             /\ n_rs' = n_rs + 1
        ELSE UNCHANGED <<cmd_rx, n_rs>>
    /\ UNCHANGED <<now, cfg, pc, last_multicast_ra, next_multicast_ra,
                   initial_ras_sent, sleep_ts, out, shutdown>>
    /\ UNCHANGED <<stateVars, last_ra, prev_mcast, mcast_since_cfg, zero_mcast,
                   n_final, n_ras, n_cfg, codecVars>>

\* main.rs:386: the reaper sends NewConfig
ReaperNewConfig ==
    /\ pc \in {"select", "sleep", "send"}
    /\ Len(cmd_rx) < ChanCap
    /\ n_cfg < MaxCfg
    /\ cmd_rx' = Append(cmd_rx, NewConfig)
    /\ n_cfg' = n_cfg + 1
    /\ UNCHANGED <<now, cfg, pc, last_multicast_ra, next_multicast_ra,
                   initial_ras_sent, sleep_ts, out, shutdown>>
    /\ UNCHANGED <<stateVars, last_ra, prev_mcast, mcast_since_cfg, zero_mcast,
                   n_final, n_ras, n_rs, codecVars>>

\* SHUTDOWN.quit() (main.rs:170), or the process is signalled
Quit ==
    /\ pc \in {"select", "sleep", "send"}
    /\ ~shutdown
    /\ shutdown' = TRUE
    /\ UNCHANGED <<now, cfg, pc, last_multicast_ra, next_multicast_ra,
                   initial_ras_sent, sleep_ts, out, cmd_rx>>
    /\ UNCHANGED <<stateVars, obsVars, codecVars>>

(***************************************************************************)
(* Time passes while the scheduler waits: in the select with no arm ready, *)
(* or in the sleep of line 232.  A timer fires when it is due.             *)
(***************************************************************************)
Waiting ==
    \/ pc = "select" /\ ~shutdown /\ now < next_multicast_ra /\ cmd_rx = <<>>
    \/ pc = "sleep" /\ now < sleep_ts

Deadline == IF pc = "sleep" THEN sleep_ts ELSE next_multicast_ra

Advance ==
    /\ Waiting
    /\ n_ras < MaxRAs
    /\ \E d \in AdvanceSteps \cup {Deadline - now} :
        /\ now + d <= Deadline
        /\ d = Deadline - now \/ now + d <= FineHorizon
        /\ now' = now + d
    /\ UNCHANGED <<cfg, pc, last_multicast_ra, next_multicast_ra,
                   initial_ras_sent, sleep_ts, out, shutdown, cmd_rx>>
    /\ UNCHANGED <<stateVars, obsVars, codecVars>>

Next ==
    \/ SchedStart
    \/ SchedShutdown
    \/ SchedTick
    \/ SchedSolicited
    \/ SchedWake
    \/ SchedNewConfig
    \/ SchedSent
    \/ RecvRS
    \/ ReaperNewConfig
    \/ Quit
    \/ Advance

Spec == Init /\ [][Next]_vars

(***************************************************************************)
(* The claims about the scheduler.                                         *)
(***************************************************************************)
Multicast(r) == r.ra.dst = MULTICAST_ALL_NODES

\* C1: two consecutive RAs sent to all-nodes at times t1 < t2 are at least
\* MIN_DELAY_BETWEEN_RAS (3 s) apart.
C1_MinDelayBetweenRAs ==
    (Multicast(last_ra) /\ last_ra.gap > 0) => last_ra.gap >= MIN_DELAY_BETWEEN_RAS

\* C2: without shutdown, two consecutive RAs sent to all-nodes are at most
\* MAX_DELAY_BETWEEN_RAS (1800 s) apart, whatever solicitations arrive.
C2_MaxDelayBetweenRAs ==
    (~shutdown /\ Multicast(last_ra)) => last_ra.gap <= MAX_DELAY_BETWEEN_RAS

\* C3: among the first MAX_INITIAL_RTR_ADVERTISEMENTS multicast RAs after
\* startup or a NewConfig, consecutive ones are at most
\* MAX_INITIAL_RTR_ADVERT_INTERVAL (16 s) apart.
C3_InitialBurst ==
    (Multicast(last_ra) /\ last_ra.nth \in 2..MAX_INITIAL_RTR_ADVERTISEMENTS)
        => last_ra.gap <= MAX_INITIAL_RTR_ADVERT_INTERVAL

\* C4: a unicast RA answering a solicitation is sent at most MAX_RA_DELAY_TIME
\* (500 ms) after the solicitation was received.
C4_SolicitedDelay ==
    last_ra.ra.by = "solicit" => last_ra.t - last_ra.ra.rs_at <= MAX_RA_DELAY_TIME

\* C5: every RA of the shutdown goes to all-nodes with RouterLifetime 0, and
\* there are at most MAX_FINAL_RTR_ADVERTISEMENTS of them.
C5_FinalRAs ==
    /\ last_ra.ra.sd => (Multicast(last_ra) /\ last_ra.ra.router_lifetime = 0)
    /\ n_final <= MAX_FINAL_RTR_ADVERTISEMENTS

\* C6: a scheduler that has terminated after the shutdown signal has sent at
\* least one RA with RouterLifetime 0 to all-nodes.
C6_ShutdownAnnounced ==
    pc = "done" => zero_mcast >= 1

\* C7: an RA with RouterLifetime 0 sent during shutdown carries no
\* PrefixInformation option.
C7_NoPrefixOnShutdown ==
    (last_ra.ra.sd /\ last_ra.ra.router_lifetime = 0) => last_ra.ra.pi = {}

(***************************************************************************)
(* Bytes.  The casts keep the low bits; as_u32 keeps them as two 16-bit    *)
(* halves, which is n mod 2^32 for every n >= 0.                           *)
(***************************************************************************)
as_u8(n)     == n % 256
\* A cast one width too narrow
as_u16_narrow(n) == n % 256
as_u16(n)    == n % 65536
as_u32(n)    == ((n \div 65536) % 65536) * 65536 + (n % 65536)

\* bytes::BufMut::put_u32_le / put_u32 / put_u16 and bytes::Buf::get_*
put_u32_le(n) == <<n % 256, (n \div 256) % 256, (n \div 65536) % 256, (n \div 16777216) % 256>>
put_u32(n)    == <<(n \div 16777216) % 256, (n \div 65536) % 256, (n \div 256) % 256, n % 256>>
put_u16(n)    == <<(n \div 256) % 256, n % 256>>
get_u32_le(b) == b[1] + 256 * b[2] + 65536 * b[3] + 16777216 * b[4]
get_u32(b)    == 16777216 * b[1] + 65536 * b[2] + 256 * b[3] + b[4]
get_u16(b)    == 256 * b[1] + b[2]

Drop(b, n) == SubSeq(b, n + 1, Len(b))
Take(b, n) == SubSeq(b, 1, n)

(***************************************************************************)
(* The control codec (rsadv_control/src/lib.rs).                           *)
(***************************************************************************)
AddPrefix(p)       == [kind |-> "AddPrefix", prefix |-> p]
RemovePrefix(p)    == [kind |-> "RemovePrefix", prefix |-> p]
AddDnsServer(d)    == [kind |-> "AddDnsServer", server |-> d]
RemoveDnsServer(d) == [kind |-> "RemoveDnsServer", server |-> d]
DnsServer(a, lt)   == [addr |-> a, lifetime |-> lt]

\* One lifetime as every arm but one writes it (lib.rs:30-40): the tag, then
\* the seconds as u32, little-endian.  An Until is seconds since the epoch.
EncodeLifetime(lt) ==
    IF lt.tag = "Duration"
    THEN <<1>> \o put_u32_le(as_u32(lt.v))
    ELSE <<2>> \o put_u32_le(as_u32(lt.v))

\* The valid lifetime of RemovePrefix (lib.rs:72-82): put_u32 for a Duration
EncodeLifetimeRemoveValid(lt) ==
    IF lt.tag = "Duration"
    THEN <<1>> \o put_u32(as_u32(lt.v))
    ELSE <<2>> \o put_u32_le(as_u32(lt.v))

\* Request::encode (lib.rs:19-119)
RequestEncode(r) ==
    CASE r.kind = "AddPrefix" ->
            put_u32_le(1) \o r.prefix.prefix \o <<r.prefix.prefix_length>>
            \o EncodeLifetime(r.prefix.preferred_lifetime)
            \o EncodeLifetime(r.prefix.valid_lifetime)
      [] r.kind = "RemovePrefix" ->
            put_u32_le(2) \o r.prefix.prefix \o <<r.prefix.prefix_length>>
            \o EncodeLifetime(r.prefix.preferred_lifetime)
            \o EncodeLifetimeRemoveValid(r.prefix.valid_lifetime)
      [] r.kind = "AddDnsServer" ->
            put_u32_le(3) \o r.server.addr \o EncodeLifetime(r.server.lifetime)
      [] r.kind = "RemoveDnsServer" ->
            put_u32_le(4) \o r.server.addr \o EncodeLifetime(r.server.lifetime)

CtlOk(r)   == [ok |-> TRUE, req |-> r]
CtlErr(e)  == [ok |-> FALSE, err |-> e]

\* match buf.get_u8() with an arm for every tag
DecodeLifetimeAnyTag(b) ==
    IF b[1] = 2 THEN <<LtUntil(get_u32_le(Drop(b, 1)))>>
    ELSE <<LtDuration(get_u32_le(Drop(b, 1)))>>

\* The match on the tag byte (lib.rs:142-148): <<lifetime>>, or <<>> for Eof
DecodeLifetime(b) ==
    IF b[1] = 1 THEN <<LtDuration(get_u32_le(Drop(b, 1)))>>
    ELSE IF b[1] = 2 THEN <<LtUntil(get_u32_le(Drop(b, 1)))>>
    ELSE <<>>

\* lib.rs:130-164 and 165-199
DecodePrefixBody(kind, b) ==
    IF Len(b) < 16 + 1 + 1 + 4 + 1 + 4 THEN CtlErr("Eof")
    ELSE LET preferred == DecodeLifetime(SubSeq(b, 18, 22))
             valid     == DecodeLifetime(SubSeq(b, 23, 27))
         IN  IF preferred = <<>> \/ valid = <<>> THEN CtlErr("Eof")
             ELSE CtlOk([kind |-> kind,
                         prefix |-> MkPrefix(Take(b, 16), b[17], preferred[1], valid[1])])

\* lib.rs:200-222 and 223-245
DecodeDnsBody(kind, b) ==
    IF Len(b) < 16 + 1 + 4 THEN CtlErr("Eof")
    ELSE LET lifetime == DecodeLifetime(SubSeq(b, 17, 21))
         IN  IF lifetime = <<>> THEN CtlErr("Eof")
             ELSE CtlOk([kind |-> kind, server |-> DnsServer(Take(b, 16), lifetime[1])])

\* Request::decode (lib.rs:121-248)
RequestDecode(buf) ==
    IF Len(buf) < 4 THEN CtlErr("Eof")
    ELSE LET d == get_u32_le(buf)
             b == Drop(buf, 4)
         IN  CASE d = 1 -> DecodePrefixBody("AddPrefix", b)
               [] d = 2 -> DecodePrefixBody("RemovePrefix", b)
               [] d = 3 -> DecodeDnsBody("AddDnsServer", b)
               [] d = 4 -> DecodeDnsBody("RemoveDnsServer", b)
               [] OTHER -> CtlErr("Eof")

\* The requests the model encodes: whole seconds that fit in 32 bits
CtlLifetimes ==
    { LtDuration(0), LtDuration(3600), LtDuration(2130706448),
      LtUntil(1), LtUntil(1700000000) }

CtlRequests ==
    { [kind |-> k, prefix |-> MkPrefix(a, l, p, v)] :
        k \in {"AddPrefix", "RemovePrefix"}, a \in {UNSPECIFIED, DocPrefix},
        l \in {0, 64}, p \in CtlLifetimes, v \in CtlLifetimes }
    \cup
    { [kind |-> k, server |-> DnsServer(a, lt)] :
        k \in {"AddDnsServer", "RemoveDnsServer"}, a \in {UNSPECIFIED, HostAddr},
        lt \in CtlLifetimes }

\* The scheduler is not part of the codec specifications
SchedOff ==
    /\ now = 0 /\ cfg = [min |-> 0, max |-> 0, mtu |-> 0] /\ pc = "off"
    /\ last_multicast_ra = 0 /\ next_multicast_ra = 0 /\ initial_ras_sent = 0
    /\ sleep_ts = 0 /\ out = NoRA /\ shutdown = FALSE /\ cmd_rx = <<>>
    /\ prefixes = {} /\ dns_servers = {} /\ ReaperOff
    /\ last_ra = NoneSent /\ prev_mcast = -1 /\ mcast_since_cfg = 0
    /\ zero_mcast = 0 /\ n_final = 0 /\ n_ras = 0 /\ n_rs = 0 /\ n_cfg = 0

InitCtl ==
    /\ SchedOff
    /\ cph = "input"
    /\ cin \in CtlRequests
    /\ cbuf = <<>>
    /\ cres = <<>>

\* Connection::send (lib.rs:337-339): the client encodes the request
CtlEncode ==
    /\ cph = "input"
    /\ cbuf' = RequestEncode(cin)
    /\ cph' = "encoded"
    /\ UNCHANGED <<cin, cres, schedVars, stateVars, obsVars>>

\* handle_conn (control.rs:63): the server decodes the payload
CtlDecode ==
    /\ cph = "encoded"
    /\ cres' = RequestDecode(cbuf)
    /\ cph' = "decoded"
    /\ UNCHANGED <<cin, cbuf, schedVars, stateVars, obsVars>>

NextCtl == CtlEncode \/ CtlDecode

SpecCtl == InitCtl /\ [][NextCtl]_vars

\* C8: the control codec round-trips every request of the four kinds whose
\* lifetimes are whole seconds that fit in 32 bits.
C8_ControlRoundTrip ==
    cph = "decoded" => cres = CtlOk(cin)

(***************************************************************************)
(* The NDP codec (rsadv_server/src/ndp.rs).  Option<T> is <<>> or <<x>>.   *)
(***************************************************************************)
IcmpType_to_u8(t) ==
    IF t = "RouterSolicitation" THEN 133 ELSE 134

\* ndp.rs:86-92: "None" for a type that is not recognized
IcmpType_from_u8(n) ==
    IF n = 133 THEN "RouterSolicitation"
    ELSE IF n = 134 THEN "RouterAdvertisement"
    ELSE "None"

\* ndp.rs:528-537
OptionCode_to_u8(c) ==
    CASE c = "SourceLinkLayerAddress" -> 1
      [] c = "TargetLinkLayerAddress" -> 2
      [] c = "PrefixInformation" -> 3
      [] c = "RedirectedHeader" -> 4
      [] c = "Mtu" -> 5
      [] c = "RecursiveDnsServer" -> 25

\* ndp.rs:516-526
OptionCode_from_u8(n) ==
    CASE n = 1 -> "SourceLinkLayerAddress"
      [] n = 2 -> "TargetLinkLayerAddress"
      [] n = 3 -> "PrefixInformation"
      [] n = 4 -> "RedirectedHeader"
      [] n = 5 -> "Mtu"
      [] n = 25 -> "RecursiveDnsServer"
      [] OTHER -> "None"

\* ndp.rs:177-184, 332-343, 540-544
SourceLinkLayerAddress(mac) == [opt |-> "SourceLinkLayerAddress", addr |-> mac]
TargetLinkLayerAddress(mac) == [opt |-> "TargetLinkLayerAddress", addr |-> mac]
PrefixInformation(len, l, a, valid, preferred, prefix) ==
    [opt |-> "PrefixInformation", prefix_length |-> len, on_link |-> l,
     autonomous |-> a, valid_lifetime |-> valid, preferred_lifetime |-> preferred,
     prefix |-> prefix]
Mtu(n) == [opt |-> "Mtu", mtu |-> n]
RecursiveDnsServer(lifetime, addrs) ==
    [opt |-> "RecursiveDnsServer", lifetime |-> lifetime, addrs |-> addrs]

\* (x as u8) << 7 | (y as u8) << 6 and its reading back
FlagBits(x, y) == (IF x THEN 128 ELSE 0) + (IF y THEN 64 ELSE 0)
Bit7(flags)    == (flags \div 128) % 2 = 1
Bit6(flags)    == (flags \div 64) % 2 = 1

\* put_slice(&addr.octets()) for each address of a list: 16 bytes per address
Octets(addrs) ==
    [i \in 1..(16 * Len(addrs)) |-> addrs[((i - 1) \div 16) + 1][((i - 1) % 16) + 1]]

\* IcmpOption::encode (ndp.rs:186-237).  The length byte of the RDNSS option
\* is computed in u8.
IcmpOptionEncode(o) ==
    CASE o.opt = "SourceLinkLayerAddress" ->
            <<OptionCode_to_u8("SourceLinkLayerAddress"), 1>> \o o.addr
      [] o.opt = "TargetLinkLayerAddress" ->
            <<OptionCode_to_u8("TargetLinkLayerAddress"), 1>> \o o.addr
      [] o.opt = "PrefixInformation" ->
            <<OptionCode_to_u8("PrefixInformation"), 4,
              o.prefix_length, FlagBits(o.on_link, o.autonomous)>>
            \o put_u32(as_u32(as_secs(o.valid_lifetime)))
            \o put_u32(as_u32(as_secs(o.preferred_lifetime)))
            \o put_u32(0)
            \o o.prefix
      [] o.opt = "Mtu" ->
            <<OptionCode_to_u8("Mtu"), 1, 0, 0>> \o put_u32(o.mtu)
      [] o.opt = "RecursiveDnsServer" ->
            <<OptionCode_to_u8("RecursiveDnsServer"),
              as_u8(1 + as_u8(as_u8(Len(o.addrs)) * 2)), 0, 0>>
            \o put_u32(as_u32(as_secs(o.lifetime)))
            \o Octets(o.addrs)

RECURSIVE EncodeOptions(_)
\* for opt in &self.options { opt.encode(&mut buf) } (ndp.rs:132-134)
EncodeOptions(opts) ==
    IF opts = <<>> THEN <<>>
    ELSE IcmpOptionEncode(Head(opts)) \o EncodeOptions(Tail(opts))

\* RouterAdvertisement::encode (ndp.rs:106-136)
RouterAdvertisementEncode(adv) ==
    <<adv.cur_hop_limit, FlagBits(adv.managed, adv.other)>>
    \o put_u16(as_u16(as_secs(adv.router_lifetime)))
    \o (IF adv.reachable_timer # <<>>
        THEN put_u32(as_u32(as_secs(adv.reachable_timer[1]))) ELSE put_u32(0))
    \o (IF adv.retrans_timer # <<>>
        THEN put_u32(as_u32(as_secs(adv.retrans_timer[1]))) ELSE put_u32(0))
    \o EncodeOptions(adv.options)

\* RouterSolicitation::encode (ndp.rs:375-389)
RouterSolicitationEncode(sol) ==
    <<0, 0, 0, 0>>
    \o (IF sol.source_link_layer_addr # <<>>
        THEN <<OptionCode_to_u8("SourceLinkLayerAddress"), 1>>
             \o sol.source_link_layer_addr[1]
        ELSE <<>>)

\* IcmpPacket::encode (ndp.rs:21-35): the content decides what follows the
\* four header bytes
IcmpPacketEncode(p) ==
    <<IcmpType_to_u8(p.typ), p.code>> \o put_u16(p.checksum)
    \o (IF p.content.kind = "RouterSolicitation"
        THEN RouterSolicitationEncode(p.content)
        ELSE RouterAdvertisementEncode(p.content))

\* Reads that consume nothing when fewer than n bytes remain
ReadU8sOrNothing(b, n) ==
    IF Len(b) < n THEN [ok |-> FALSE, bytes |-> <<>>, rest |-> b]
    ELSE [ok |-> TRUE, bytes |-> Take(b, n), rest |-> Drop(b, n)]

\* n successive u8::decode calls (ndp.rs:442-455): every byte present is
\* consumed, and the call that finds none fails with Eof
ReadU8s(b, n) ==
    IF Len(b) < n THEN [ok |-> FALSE, bytes |-> <<>>, rest |-> <<>>]
    ELSE [ok |-> TRUE, bytes |-> Take(b, n), rest |-> Drop(b, n)]

\* u16::decode and u32::decode (ndp.rs:466-503): nothing is consumed when
\* fewer than n bytes remain
ReadWord(b, n) ==
    IF Len(b) < n THEN [ok |-> FALSE, bytes |-> <<>>, rest |-> b]
    ELSE [ok |-> TRUE, bytes |-> Take(b, n), rest |-> Drop(b, n)]

\* Result<IcmpOption, Error> with the buffer as the call leaves it; st is
\* "panic" when the call does not return
OptOk(o, rest)  == [st |-> "Ok", opt |-> <<o>>, err |-> "", rest |-> rest]
OptErr(e, rest) == [st |-> "Err", opt |-> <<>>, err |-> e, rest |-> rest]
OptPanic        == [st |-> "panic", opt |-> <<>>, err |-> "", rest |-> <<>>]

\* LinkLayerAddress::decode (ndp.rs:354-368)
LinkLayerAddressDecode(b) == ReadU8s(b, 6)

\* ndp.rs:258-280
DecodePrefixInformation(b) ==
    LET h == ReadU8s(b, 2)
        v == ReadWord(h.rest, 4)
        p == ReadWord(v.rest, 4)
        r == ReadWord(p.rest, 4)
        a == ReadU8s(r.rest, 16)
    IN  IF ~h.ok THEN OptErr("Eof", h.rest)
        ELSE IF ~v.ok THEN OptErr("Eof", v.rest)
        ELSE IF ~p.ok THEN OptErr("Eof", p.rest)
        ELSE IF ~r.ok THEN OptErr("Eof", r.rest)
        ELSE IF ~a.ok THEN OptErr("Eof", a.rest)
        ELSE OptOk(PrefixInformation(h.bytes[1], Bit7(h.bytes[2]), Bit6(h.bytes[2]),
                                     from_secs(get_u32(v.bytes)),
                                     from_secs(get_u32(p.bytes)), a.bytes),
                   a.rest)

\* ndp.rs:284-291
DecodeMtu(b) ==
    LET h == ReadU8s(b, 2)
        m == ReadWord(h.rest, 4)
    IN  IF ~h.ok THEN OptErr("Eof", h.rest)
        ELSE IF ~m.ok THEN OptErr("Eof", m.rest)
        ELSE OptOk(Mtu(get_u32(m.bytes)), m.rest)

RECURSIVE ReadAddrs(_, _)
\* The loop over num_addrs at ndp.rs:302-309
ReadAddrs(b, n) ==
    IF n = 0 THEN [ok |-> TRUE, addrs |-> <<>>, rest |-> b]
    ELSE LET a == ReadU8s(b, 16)
         IN  IF ~a.ok THEN [ok |-> FALSE, addrs |-> <<>>, rest |-> a.rest]
             ELSE LET t == ReadAddrs(a.rest, n - 1)
                  IN  [ok |-> t.ok, addrs |-> <<a.bytes>> \o t.addrs, rest |-> t.rest]

\* ndp.rs:292-315
DecodeRecursiveDnsServer(len, b) ==
    LET h == ReadU8s(b, 2)
        l == ReadWord(h.rest, 4)
        num_addrs == Max(len - 1, 0) \div 2
        a == ReadAddrs(l.rest, num_addrs)
    IN  IF ~h.ok THEN OptErr("Eof", h.rest)
        ELSE IF ~l.ok THEN OptErr("Eof", l.rest)
        ELSE IF ~a.ok THEN OptErr("Eof", a.rest)
        ELSE OptOk(RecursiveDnsServer(from_secs(get_u32(l.bytes)), a.addrs), a.rest)

\* ndp.rs:316-327: len.saturating_mul(8).saturating_sub(2) bytes are read
DecodeUnknown(len, b) ==
    LET forward == Max(Min(len * 8, 255) - 2, 0)
        s == ReadU8s(b, forward)
    IN  IF ~s.ok THEN OptErr("Eof", s.rest)
        ELSE OptErr("UnknownOptionCode", s.rest)

\* IcmpOption::decode (ndp.rs:239-330)
IcmpOptionDecode(buf) ==
    LET h == ReadU8s(buf, 2)
        code == OptionCode_from_u8(h.bytes[1])
        len  == h.bytes[2]
    IN  IF ~h.ok THEN OptErr("Eof", h.rest)
        ELSE CASE code = "SourceLinkLayerAddress" ->
                    LET a == LinkLayerAddressDecode(h.rest)
                    IN  IF ~a.ok THEN OptErr("Eof", a.rest)
                        ELSE OptOk(SourceLinkLayerAddress(a.bytes), a.rest)
               [] code = "TargetLinkLayerAddress" ->
                    LET a == LinkLayerAddressDecode(h.rest)
                    IN  IF ~a.ok THEN OptErr("Eof", a.rest)
                        ELSE OptOk(TargetLinkLayerAddress(a.bytes), a.rest)
               [] code = "PrefixInformation" -> DecodePrefixInformation(h.rest)
               [] code = "RedirectedHeader" -> OptPanic
               [] code = "Mtu" -> DecodeMtu(h.rest)
               [] code = "RecursiveDnsServer" -> DecodeRecursiveDnsServer(len, h.rest)
               [] OTHER -> DecodeUnknown(len, h.rest)

RECURSIVE DecodeOptions(_)
\* while buf.remaining() > 0 { if let Ok(opt) = ... } (ndp.rs:158-163)
DecodeOptions(buf) ==
    IF Len(buf) = 0 THEN [panic |-> FALSE, options |-> <<>>]
    ELSE LET r == IcmpOptionDecode(buf)
         IN  IF r.st = "panic" THEN [panic |-> TRUE, options |-> <<>>]
             ELSE LET t == DecodeOptions(r.rest)
                  IN  [panic |-> t.panic, options |-> r.opt \o t.options]

\* Result<IcmpPacket, Error>, or the panic that unwinds the calling task
NdpOk(p)  == [st |-> "Ok", packet |-> p]
NdpErr(e) == [st |-> "Err", err |-> e]
NdpPanic  == [st |-> "panic"]

\* Result<content, Error> of the two content decoders
ContentOk(c) == [st |-> "Ok", content |-> c]

\* ndp.rs:95-104
RouterAdvertisement(hop, m, o, lifetime, reachable, retrans, options) ==
    [kind |-> "RouterAdvertisement", cur_hop_limit |-> hop, managed |-> m,
     other |-> o, router_lifetime |-> lifetime, reachable_timer |-> reachable,
     retrans_timer |-> retrans, options |-> options]

\* ndp.rs:370-373
RouterSolicitation(slla) ==
    [kind |-> "RouterSolicitation", source_link_layer_addr |-> slla]

\* ndp.rs:13-19
IcmpPacket(typ, code, checksum, content) ==
    [typ |-> typ, code |-> code, checksum |-> checksum, content |-> content]

\* match u32::decode(&mut buf)? { 0 => None, val => Some(..) } (ndp.rs:149-156)
DecodeTimer(bytes) ==
    IF get_u32(bytes) = 0 THEN <<>> ELSE <<from_secs(get_u32(bytes))>>

\* RouterAdvertisement::decode (ndp.rs:138-175)
RouterAdvertisementDecode(buf) ==
    LET h  == ReadU8s(buf, 2)
        rl == ReadWord(h.rest, 2)
        rt == ReadWord(rl.rest, 4)
        rx == ReadWord(rt.rest, 4)
        os == DecodeOptions(rx.rest)
    IN  IF ~h.ok \/ ~rl.ok \/ ~rt.ok \/ ~rx.ok THEN NdpErr("Eof")
        ELSE IF os.panic THEN NdpPanic
        ELSE ContentOk(RouterAdvertisement(
                 h.bytes[1], Bit7(h.bytes[2]), Bit6(h.bytes[2]),
                 from_secs(get_u16(rl.bytes)),
                 DecodeTimer(rt.bytes), DecodeTimer(rx.bytes), os.options))

\* RouterSolicitation::decode (ndp.rs:391-417)
RouterSolicitationDecode(buf) ==
    LET r == ReadU8s(buf, 4)
        b == r.rest
    IN  IF ~r.ok THEN NdpErr("Eof")
        ELSE IF Len(b) = 0 THEN ContentOk(RouterSolicitation(<<>>))
        ELSE IF OptionCode_from_u8(b[1]) = "None" THEN NdpErr("Eof")
        ELSE IF Len(b) < 2 THEN NdpErr("Eof")
        ELSE IF OptionCode_from_u8(b[1]) = "SourceLinkLayerAddress"
             THEN LET a == LinkLayerAddressDecode(Drop(b, 2))
                  IN  IF ~a.ok THEN NdpErr("Eof")
                      ELSE ContentOk(RouterSolicitation(<<a.bytes>>))
        ELSE ContentOk(RouterSolicitation(<<>>))

\* IcmpPacket::decode (ndp.rs:37-64)
IcmpPacketDecode(buf) ==
    IF Len(buf) < 1 THEN NdpErr("Eof")
    ELSE IF IcmpType_from_u8(buf[1]) = "None" THEN NdpErr("UnknownIcmpType")
    ELSE IF Len(buf) < 4 THEN NdpErr("Eof")
    ELSE LET typ == IcmpType_from_u8(buf[1])
             r == IF typ = "RouterSolicitation"
                  THEN RouterSolicitationDecode(Drop(buf, 4))
                  ELSE RouterAdvertisementDecode(Drop(buf, 4))
         IN  IF r.st # "Ok" THEN r
             ELSE NdpOk(IcmpPacket(typ, buf[2], get_u16(SubSeq(buf, 3, 4)), r.content))

(***************************************************************************)
(* Inputs of the NDP codec model.                                          *)
(***************************************************************************)
MaxOptions == 2     \* options of an encoded Router Advertisement
MaxChunks  == 2     \* option-sized pieces of a received datagram

Mac == <<2, 0, 0, 0, 0, 1>>

NdpOptionValues ==
    { SourceLinkLayerAddress(Mac),
      TargetLinkLayerAddress(Mac),
      PrefixInformation(64, TRUE, TRUE, from_secs(3600), from_secs(1800), DocPrefix),
      PrefixInformation(128, FALSE, TRUE, from_secs(2147483), 0, HostAddr),
      Mtu(1500),
      Mtu(2147483647),
      RecursiveDnsServer(from_secs(3600), <<>>),
      RecursiveDnsServer(from_secs(3600), <<HostAddr>>),
      RecursiveDnsServer(0, <<HostAddr, DocPrefix>>) }

OptionLists == UNION { [1..n -> NdpOptionValues] : n \in 0..MaxOptions }

\* code, checksum and cur_hop_limit
NdpHeaders == { <<0, 0, 64>>, <<7, 65535, 255>> }

NdpTimers(some) == { <<>>, <<0>>, <<from_secs(some)>> }

NdpPackets ==
    { IcmpPacket("RouterSolicitation", h[1], h[2], RouterSolicitation(slla)) :
        h \in NdpHeaders, slla \in { <<>>, <<Mac>> } }
    \cup
    { IcmpPacket("RouterAdvertisement", h[1], h[2],
                 RouterAdvertisement(h[3], m, o, lt, reachable, retrans, opts)) :
        h \in NdpHeaders, m \in BOOLEAN, o \in BOOLEAN,
        lt \in { 0, from_secs(65535) },
        reachable \in NdpTimers(30), retrans \in NdpTimers(1),
        opts \in OptionLists }

\* What a peer can put after the fixed part of a datagram: options of the
\* five supported kinds, a Redirected Header option (type 4), options of a
\* type that is not recognized (length 1, 2 and 0)
RawChunks ==
    { IcmpOptionEncode(SourceLinkLayerAddress(Mac)),
      IcmpOptionEncode(PrefixInformation(64, TRUE, TRUE, from_secs(3600),
                                         from_secs(1800), DocPrefix)),
      IcmpOptionEncode(Mtu(1500)),
      IcmpOptionEncode(RecursiveDnsServer(from_secs(3600), <<HostAddr>>)),
      <<4, 1, 0, 0, 0, 0, 0, 0>>,
      <<14, 1, 0, 0, 0, 0, 0, 0>>,
      <<14, 2, 0, 0, 0, 0, 0, 0, 0, 0, 0, 0, 0, 0, 0, 0>>,
      <<14, 0>> }

RECURSIVE Concat(_)
Concat(chunks) ==
    IF chunks = <<>> THEN <<>> ELSE Head(chunks) \o Concat(Tail(chunks))

RawBodies == { Concat(cs) : cs \in UNION { [1..n -> RawChunks] : n \in 0..MaxChunks } }

\* The fixed part: a Router Advertisement, a Router Solicitation, a Redirect
RawHeads ==
    { IcmpPacketEncode(IcmpPacket("RouterAdvertisement", 0, 0,
          RouterAdvertisement(64, FALSE, FALSE, from_secs(1800), <<>>, <<>>, <<>>))),
      IcmpPacketEncode(IcmpPacket("RouterSolicitation", 0, 0, RouterSolicitation(<<>>))),
      <<137, 0, 0, 0>> }

\* Bytes cut from the end of a datagram
RawCuts == {0, 1, 3}

RawBuffers ==
    { Take(h \o b, Max(Len(h \o b) - k, 0)) :
        h \in RawHeads, b \in RawBodies, k \in RawCuts }

\* An option of a type the decoder does not know, well formed: type, length
\* L in units of 8 bytes, L * 8 - 2 body bytes
UnknownTypes == {0, 4, 14, 255}
UnknownLens  == {1, 2, 31}
Zeros(n) == [i \in 1..n |-> 0]
UnknownOption(t, L) == <<t, L>> \o Zeros(L * 8 - 2)

\* Router Advertisements as the daemon builds them (main.rs:289-302) with
\* at least two options, between which a peer inserts an unknown option
BasePackets ==
    { IcmpPacket("RouterAdvertisement", 0, 0,
                 RouterAdvertisement(64, FALSE, FALSE, from_secs(1800), <<>>, <<>>, opts)) :
        opts \in { l \in OptionLists : Len(l) >= 2 } }

\* The encoding of p with chunk between its options i and i + 1
InsertUnknown(p, i, chunk) ==
    IcmpPacketEncode([p EXCEPT !.content.options = <<>>])
    \o EncodeOptions(SubSeq(p.content.options, 1, i))
    \o chunk
    \o EncodeOptions(SubSeq(p.content.options, i + 1, Len(p.content.options)))

\* Option values handed to IcmpOption::encode on their own: the options of
\* the packets above and RDNSS options with long address lists
MaxAddrs == 128
AddrList(n) == [i \in 1..n |-> HostAddr]
OptionInputs ==
    NdpOptionValues
    \cup { RecursiveDnsServer(from_secs(3600), AddrList(n)) : n \in {MaxAddrs - 1, MaxAddrs} }

\* 1 + opt.addrs.len() as u8 * 2 (ndp.rs:226) leaves the range of u8: a build
\* with overflow checks panics there, a build without them wraps
LengthOverflows(o) ==
    /\ o.opt = "RecursiveDnsServer"
    /\ 1 + as_u8(Len(o.addrs)) * 2 > 255

\* Router Advertisements whose router lifetime is at and beyond the 16 bits
\* of its field
WideLifetimes == { from_secs(n) : n \in {5400, 65535, 65536, 65537, 70000, 131071} }

WidePackets ==
    { IcmpPacket("RouterAdvertisement", 0, 0,
                 RouterAdvertisement(64, FALSE, FALSE, lt, <<>>, <<>>, <<>>)) :
        lt \in WideLifetimes }

InitNdp ==
    /\ SchedOff
    /\ \/ /\ cph = "input"
          /\ cin \in NdpPackets
          /\ cbuf = <<>>
       \/ /\ cph = "received"
          /\ cin \in {UNSPECIFIED, HostAddr}
          /\ cbuf \in RawBuffers
       \/ /\ cph = "base"
          /\ cin \in BasePackets
          /\ cbuf = <<>>
       \/ /\ cph = "option"
          /\ cin \in OptionInputs
          /\ cbuf = <<>>
       \/ /\ cph = "wide"
          /\ cin \in WidePackets
          /\ cbuf = <<>>
    /\ cres = <<>>

\* IcmpSocket::send_to (main.rs:493-506): the packet is encoded
NdpEncode ==
    /\ cph \in {"input", "wide"}
    /\ cbuf' = IcmpPacketEncode(cin)
    /\ cph' = IF cph = "input" THEN "encoded" ELSE "wide_encoded"
    /\ UNCHANGED <<cin, cres, schedVars, stateVars, obsVars>>

\* The encoded packet is decoded again
NdpDecode ==
    /\ cph = "encoded"
    /\ cres' = IcmpPacketDecode(cbuf)
    /\ cph' = "decoded"
    /\ UNCHANGED <<cin, cbuf, schedVars, stateVars, obsVars>>

\* A peer sends an advertisement with an unknown option between two options
NdpInsertUnknown ==
    /\ cph = "base"
    /\ \E i \in 1..(Len(cin.content.options) - 1), t \in UnknownTypes, L \in UnknownLens :
          cbuf' = InsertUnknown(cin, i, UnknownOption(t, L))
    /\ cph' = "inserted"
    /\ UNCHANGED <<cin, cres, schedVars, stateVars, obsVars>>

\* IcmpSocket::recv_from (main.rs:468-491): a datagram of any content is decoded
recv_from ==
    /\ cph \in {"received", "inserted"}
    /\ cres' = IcmpPacketDecode(cbuf)
    /\ cph' = IF cph = "received" THEN "returned" ELSE "skipped"
    /\ UNCHANGED <<cin, cbuf, schedVars, stateVars, obsVars>>

\* IcmpOption::encode (ndp.rs:186-237) applied to one option
OptionEncode ==
    /\ cph = "option"
    /\ \/ /\ cbuf' = IcmpOptionEncode(cin)
          /\ cres' = [st |-> "Ok"]
       \/ /\ LengthOverflows(cin)
          /\ cbuf' = <<>>
          /\ cres' = [st |-> "panic"]
    /\ cph' = "option_encoded"
    /\ UNCHANGED <<cin, schedVars, stateVars, obsVars>>

\* The RS receiver (main.rs:338-353) with the packet recv_from returned for a
\* datagram from source cin: a valid solicitation is sent into the channel
RsReceiver ==
    /\ cph = "returned"
    /\ cres.st = "Ok"
    /\ cmd_rx' = IF router_solicit_is_valid(cin, cres.packet)
                 THEN Append(cmd_rx, SendRouterAdvertisement(cin, now))
                 ELSE cmd_rx
    /\ cph' = "handled"
    /\ UNCHANGED <<now, cfg, pc, last_multicast_ra, next_multicast_ra,
                   initial_ras_sent, sleep_ts, out, shutdown>>
    /\ UNCHANGED <<cin, cbuf, cres, stateVars, obsVars>>

NextNdp ==
    NdpEncode \/ NdpDecode \/ NdpInsertUnknown \/ recv_from \/ OptionEncode \/ RsReceiver

SpecNdp == InitNdp /\ [][NextNdp]_vars

TimersNonZero(p) ==
    p.content.kind = "RouterAdvertisement" =>
        /\ p.content.reachable_timer # <<0>>
        /\ p.content.retrans_timer # <<0>>

C10_DecodeTotal ==
    cph \in {"decoded", "returned", "skipped"} =>
        \/ cres.st = "Ok"
        \/ cres.st = "Err" /\ cres.err \in {"Eof", "UnknownOptionCode", "UnknownIcmpType"}

\* C11: an unknown option (type not 1, 2, 3, 5, 25; length L in 1..31, with
\* L * 8 - 2 body bytes) inserted between two known options of an encoded
\* Router Advertisement does not change the decoded sequence of known options.
C11_UnknownOptionSkip ==
    cph = "skipped" =>
        /\ cres.st = "Ok"
        /\ cres.packet.content.options = cin.content.options

\* C12: for every IcmpOption value, an RDNSS option with any number of
\* addresses included, IcmpOption::encode produces bytes whose length is a
\* multiple of 8 and whose second byte is that length divided by 8.
C12_OptionByteMultiple ==
    cph = "option_encoded" =>
        /\ cres.st = "Ok"
        /\ Len(cbuf) % 8 = 0
        /\ cbuf[2] = Len(cbuf) \div 8

(***************************************************************************)
(* The derivation of the intervals at startup (main.rs:50-84), on its own. *)
(***************************************************************************)
\* Values of min_rtr_adv_interval and max_rtr_adv_interval in config.toml (s)
ConfigSeconds == {0, 1, 2, 3, 4, 5, 8, 9, 12, 1350, 1800, 1801, 2400, 2401}

InitCfg ==
    /\ SchedOff
    /\ cph = "config"
    /\ cin \in { [min |-> a, max |-> b, mtu |-> 1500] : a, b \in ConfigSeconds }
    /\ cbuf = <<>>
    /\ cres = <<>>

\* main.rs:50-84
DeriveIntervals ==
    /\ cph = "config"
    /\ cres' = [min |-> min_rtr_adv_interval(cin), max |-> max_rtr_adv_interval(cin)]
    /\ cph' = "derived"
    /\ UNCHANGED <<cin, cbuf, schedVars, stateVars, obsVars>>

NextCfg == DeriveIntervals

SpecCfg == InitCfg /\ [][NextCfg]_vars

\* C13: for every configured pair the derived intervals satisfy
\* 3 s <= MinRtrAdvInterval <= 0.75 * MaxRtrAdvInterval <= MaxRtrAdvInterval
\* <= 1800 s.
C13_RfcIntervalBounds ==
    cph = "derived" =>
        /\ 3000 <= cres.min
        /\ 4 * cres.min <= 3 * cres.max
        /\ cres.max <= 1800000

\* C14: with min_rtr_adv_interval configured as 0, the derived
\* MinRtrAdvInterval is max(MaxRtrAdvInterval / 3, 3 s) if the clamped
\* MaxRtrAdvInterval is at least 9 s and MaxRtrAdvInterval otherwise, and the
\* gap the scheduler adds to next_multicast_ra after a multicast RA that is
\* not one of the initial ones lies in [MinRtrAdvInterval, MaxRtrAdvInterval].
DefaultMin(mx) == IF mx >= from_secs(9) THEN Max(mx \div 3, from_secs(3)) ELSE mx

MaxCtl  == 3
MaxPass == 3
MaxStateRAs == 3    \* RAs after which the clock of this specification stops

\* 2001:db8:1::
DocPrefix2 == Ipv6AddrNew(8193, 3512, 1, 0, 0, 0, 0, 0)

\* A table that keeps the old record beside the new one
InsertBeside(table, p) == table \cup {p}

\* HashMap::insert(prefix.prefix, prefix): the record of that key is replaced
Insert(table, p) == { q \in table : q.prefix # p.prefix } \cup {p}

\* HashMap::remove(&prefix.prefix)
Remove(table, a) == { q \in table : q.prefix # a }

\* The requests the clients send
StateRequests ==
    { AddPrefix(MkPrefix(DocPrefix, 48, LtUntil(2), LtUntil(4))),
      AddPrefix(MkPrefix(DocPrefix2, 64, LtDuration(1), LtDuration(2))),
      RemovePrefix(MkPrefix(DocPrefix, 64, LtDuration(0), LtDuration(0))),
      AddDnsServer(DnsServer(HostAddr, LtDuration(3600))),
      RemoveDnsServer(DnsServer(HostAddr, LtDuration(3600))) }

\* What Request::decode (control.rs:63) returns for the frames of the clients
DecodedRequests == { RequestDecode(RequestEncode(c)) : c \in StateRequests }

\* handle_conn (control.rs:46-111): one request is read, decoded and applied.
\* A request that does not decode ends the connection and changes nothing.
handle_conn ==
    /\ pc # "off"
    /\ n_ctl < MaxCtl
    /\ \E r \in DecodedRequests :
            /\ r.ok
            /\ prefixes' =
                  CASE r.req.kind = "AddPrefix" ->
                         Insert(prefixes,
                                MkPrefix(r.req.prefix.prefix, r.req.prefix.prefix_length,
                                         r.req.prefix.preferred_lifetime,
                                         r.req.prefix.valid_lifetime))
                    [] r.req.kind = "RemovePrefix" -> Remove(prefixes, r.req.prefix.prefix)
                    [] OTHER -> prefixes
            /\ dns_servers' =
                  CASE r.req.kind = "AddDnsServer" -> dns_servers \cup {r.req.server.addr}
                    [] r.req.kind = "RemoveDnsServer" -> dns_servers \ {r.req.server.addr}
                    [] OTHER -> dns_servers
            \* notify_one (control.rs:83, 87): the prefix arms only
            /\ config_changed' = IF r.req.kind \in {"AddPrefix", "RemovePrefix"}
                                  THEN TRUE ELSE config_changed
            /\ last_req' = r.req
    /\ before_req' = prefixes
    /\ n_ctl' = n_ctl + 1
    /\ mutated' = TRUE
    /\ UNCHANGED <<schedVars, reaperVars, n_pass, quiet, after_pass, obsVars, codecVars>>

\* The closure of retain (main.rs:370-383): what stays in the table
RetainValid(table, t) == { p \in table : duration(p.valid_lifetime, t) # 0 }

\* get_or_insert and the comparison of lines 374-379 over the records kept:
\* the smallest valid duration, and an older smaller value stays
NextLifetime(npl, kept, t) ==
    IF kept = {} THEN npl
    ELSE LET ds == { duration(p.valid_lifetime, t) : p \in kept }
             m  == CHOOSE d \in ds : \A e \in ds : d <= e
         IN  IF npl = <<>> THEN <<m>> ELSE <<Min(npl[1], m)>>

\* main.rs:400-410: database::Prefix of a Prefix
DbPrefix(p) ==
    [prefix |-> p.prefix, prefix_length |-> p.prefix_length,
     preferred |-> p.preferred_lifetime, valid |-> p.valid_lifetime]

RECURSIVE values(_)
\* The iteration over a HashMap or HashSet (main.rs:392, 421): every element
\* once, in an order the table fixes
values(table) ==
    IF table = {} THEN <<>>
    ELSE LET x == CHOOSE y \in table : TRUE
         IN  <<x>> \o values(table \ {x})

\* The pushes of main.rs:407-418 for the records of a clone
DbPrefixes(clone) == [i \in 1..Cardinality(clone) |-> DbPrefix(values(clone)[i])]

\* main.rs:132-160: the Database loaded at startup, for the table it fills
DbOf(table) == [prefixes |-> DbPrefixes(table), dns_servers |-> <<>>]

\* A Database that keeps what it held
NotCleared(d) == d

\* db.prefixes.clear(); db.dns_servers.clear() (main.rs:388-389)
Cleared(d) == [prefixes |-> <<>>, dns_servers |-> <<>>]

\* The pass is over (main.rs:407-427): the records of the clone and the DNS
\* servers, read now, are pushed onto the Database, which is saved; the
\* reaper waits again
PassEnd(base, clone, npl, table) ==
    /\ db' = [prefixes |-> base.prefixes \o DbPrefixes(clone),
              dns_servers |-> base.dns_servers \o values(dns_servers)]
    /\ rpc' = "wait"
    /\ rdeadline' = IF npl = <<>> THEN rdeadline ELSE now + npl[1]
    /\ n_pass' = n_pass + 1
    /\ after_pass' = [prefixes |-> table, db |-> db']

\* main.rs:386-391: NewConfig is in the channel; the Database is cleared and
\* the table cloned.  add_addr is awaited once for every record of the clone.
AfterSend(table, npl) ==
    /\ cmd_rx' = Append(cmd_rx, NewConfig)
    /\ rclone' = table
    /\ IF table = {}
       THEN PassEnd(Cleared(db), table, npl, table)
       ELSE /\ db' = Cleared(db)
            /\ rpc' = "add_addr"
            /\ UNCHANGED <<rdeadline, n_pass, after_pass>>

ReaperDue == next_prefix_lifetime # <<>> /\ now >= rdeadline

\* main.rs:359-386: the wait ends, by the permit first; retain; send
ReaperPass ==
    /\ rpc = "wait"
    /\ config_changed \/ ReaperDue
    /\ n_pass < MaxPass
    /\ config_changed' = FALSE
    /\ LET kept == RetainValid(prefixes, now)
           npl  == NextLifetime(next_prefix_lifetime, kept, now)
       IN  /\ prefixes' = kept
           /\ next_prefix_lifetime' = npl
           /\ quiet' = (~mutated /\ kept = prefixes)
           /\ IF Len(cmd_rx) < ChanCap
              THEN AfterSend(kept, npl)
              ELSE /\ rpc' = "send"
                   /\ UNCHANGED <<cmd_rx, rclone, db, rdeadline, n_pass, after_pass>>
    /\ mutated' = FALSE
    /\ UNCHANGED <<now, cfg, pc, last_multicast_ra, next_multicast_ra,
                   initial_ras_sent, sleep_ts, out, shutdown>>
    /\ UNCHANGED <<dns_servers, n_ctl, last_req, before_req, obsVars, codecVars>>

\* main.rs:386: the channel was full and has room again
ReaperSend ==
    /\ rpc = "send"
    /\ Len(cmd_rx) < ChanCap
    /\ AfterSend(prefixes, next_prefix_lifetime)
    /\ UNCHANGED <<now, cfg, pc, last_multicast_ra, next_multicast_ra,
                   initial_ras_sent, sleep_ts, out, shutdown>>
    /\ UNCHANGED <<prefixes, dns_servers, config_changed, next_prefix_lifetime,
                   n_ctl, last_req, before_req, mutated, quiet, obsVars, codecVars>>

\* main.rs:392-427: add_addr has returned for every record of the clone
ReaperSave ==
    /\ rpc = "add_addr"
    /\ PassEnd(db, rclone, next_prefix_lifetime, prefixes)
    /\ UNCHANGED <<schedVars, prefixes, dns_servers, config_changed,
                   next_prefix_lifetime, rclone,
                   n_ctl, last_req, before_req, mutated, quiet, obsVars, codecVars>>

\* Time passes while scheduler and reaper both wait, until the next timer is due
StateDeadline ==
    IF next_prefix_lifetime # <<>> THEN Min(next_multicast_ra, rdeadline)
    ELSE next_multicast_ra

AdvanceState ==
    /\ pc = "select" /\ ~shutdown /\ now < next_multicast_ra /\ cmd_rx = <<>>
    /\ rpc = "wait" /\ ~config_changed /\ ~ReaperDue
    /\ n_ras < MaxStateRAs
    /\ now' = StateDeadline
    /\ UNCHANGED <<cfg, pc, last_multicast_ra, next_multicast_ra,
                   initial_ras_sent, sleep_ts, out, shutdown, cmd_rx>>
    /\ UNCHANGED <<stateVars, obsVars, codecVars>>

InitState ==
    /\ now = 0
    /\ cfg = [min |-> 3, max |-> 1800, mtu |-> 1500]
    /\ pc = "start"
    /\ last_multicast_ra = 0 /\ next_multicast_ra = 0 /\ initial_ras_sent = 0
    /\ sleep_ts = 0 /\ out = NoRA /\ shutdown = FALSE /\ cmd_rx = <<>>
    /\ prefixes \in DbSnapshots
    /\ dns_servers = {}
    /\ config_changed = FALSE
    /\ rpc = "wait" /\ next_prefix_lifetime = <<>> /\ rdeadline = 0
    /\ rclone = {} /\ db = DbOf(prefixes)
    /\ CtlObsIdle
    /\ last_ra = NoneSent /\ prev_mcast = -1 /\ mcast_since_cfg = 0
    /\ zero_mcast = 0 /\ n_final = 0 /\ n_ras = 0 /\ n_rs = 0 /\ n_cfg = 0
    /\ CodecIdle

NextState ==
    \/ SchedStart
    \/ SchedTick
    \/ SchedNewConfig
    \/ SchedSent
    \/ handle_conn
    \/ ReaperPass
    \/ ReaperSend
    \/ ReaperSave
    \/ AdvanceState

SpecState == InitState /\ [][NextState]_vars

\* C15: after any sequence of AddPrefix / RemovePrefix requests and reaper
\* passes the prefix table holds at most one record per prefix address, and
\* an AddPrefix for an address already present replaces that record's
\* prefix_length and both lifetimes with the new ones.
OnePerAddress == \A p, q \in prefixes : p.prefix = q.prefix => p = q

C15_PrefixTable ==
    /\ []OnePerAddress
    /\ [][(n_ctl' = n_ctl + 1 /\ last_req'.kind = "AddPrefix")
            => \A q \in prefixes' :
                  q.prefix = last_req'.prefix.prefix
                    => /\ q.prefix_length = last_req'.prefix.prefix_length
                       /\ q.preferred_lifetime = last_req'.prefix.preferred_lifetime
                       /\ q.valid_lifetime = last_req'.prefix.valid_lifetime]_vars

\* An AddPrefix has replaced a different record of the same address
C15_Witness ==
    /\ last_req.kind = "AddPrefix"
    /\ last_req.prefix \in prefixes
    /\ \E q \in before_req : q.prefix = last_req.prefix.prefix /\ q # last_req.prefix

\* C16: two consecutive reaper passes with no control mutation and no prefix
\* expiry between them leave the prefix table and the Database snapshot
\* (prefixes and DNS servers) equal to what they were after the first pass.
C16_ReaperIdempotent ==
    [][(n_pass' = n_pass + 1 /\ n_pass >= 1 /\ quiet' /\ ~mutated')
        => /\ prefixes' = after_pass.prefixes
           /\ db' = after_pass.db]_vars

\* A second pass, woken by its timer, has ended with a prefix in the table
\* and nothing mutated or expired since the pass before began
C16_Witness ==
    /\ n_pass >= 2 /\ quiet /\ ~mutated /\ rpc = "wait"
    /\ prefixes # {}
    /\ after_pass.db = db /\ db.prefixes # <<>>

\* C17: every applied control request, of any of the four kinds, signals
\* config_changed (so that a reaper pass follows which persists the mutation
\* and enqueues NewConfig).
C17_EveryRequestSignals ==
    [][n_ctl' = n_ctl + 1 => config_changed']_vars

\* C18: the first multicast RA emitted after the scheduler handles NewConfig
\* contains the prefixes and DNS servers of the shared state as it is at
\* emission time: while that RA is with send_to and until it is sent, its
\* options are those of the shared state.
C18_StateAtEmission ==
    (pc = "send" /\ out.by = "config")
        => /\ out.rdnss = dns_servers
           /\ out.pi = PrefixOptions(now)

\* C18, amended: the RA is built from the shared state as it is when the
\* scheduler takes NewConfig from the channel, before send_to is awaited.
C18_StateAtBuild ==
    [][(pc = "select" /\ pc' = "send" /\ out'.by = "config")
        => /\ out'.rdnss = dns_servers
           /\ out'.pi = PrefixOptions(now)]_vars

\* The RA for the only NewConfig sent so far carries a DNS server that was
\* added after the reaper had sent the command and saved a Database without it
C18_Witness ==
    /\ n_pass = 1 /\ rpc = "wait"
    /\ pc = "send" /\ out.by = "config"
    /\ out.rdnss # {} /\ db.dns_servers = <<>>
    /\ out.rdnss = dns_servers

\* C19: a Router Solicitation received from source :: that carries a source
\* link-layer address option anywhere among its options is dropped: no
\* SendRouterAdvertisement command is enqueued for it.
RECURSIVE CarriesSlla(_)
\* The options b, each of 8 * b[2] bytes, hold one of type 1
CarriesSlla(b) ==
    IF Len(b) < 8 \/ b[2] = 0 \/ 8 * b[2] > Len(b) THEN FALSE
    ELSE IF b[1] = 1 THEN TRUE
    ELSE CarriesSlla(Drop(b, 8 * b[2]))

C19_UnspecifiedSllaDropped ==
    (/\ cph = "handled" /\ cin = UNSPECIFIED
     /\ cbuf[1] = 133 /\ CarriesSlla(Drop(cbuf, 8)))
        => cmd_rx = <<>>

(***************************************************************************)
(* The start of the control listener (control.rs:21-44).  cin is what the  *)
(* file system and the socket layer answer, cres what control_loop has     *)
(* done so far.                                                            *)
(***************************************************************************)
ListenAnswers ==
    [file : BOOLEAN,                \* the socket path exists
     try_exists_ok : BOOLEAN,       \* try_exists returns Ok(file), else Err
     connect : {"Ok", "ConnectionRefused", "PermissionDenied"},
     remove_ok : BOOLEAN,           \* remove_file returns Ok
     bind_ok : BOOLEAN]             \* UnixListener::bind returns Ok

InitListen ==
    /\ SchedOff
    /\ cph = "try_exists"
    /\ cin \in ListenAnswers
    /\ cbuf = <<>>
    /\ cres = [result |-> "none", connect_called |-> FALSE, remove_called |-> FALSE,
               removed |-> FALSE, bind_called |-> FALSE]

\* A match that takes the socket over after any connect error
MatchConnectAnyErr(res) ==
    IF res = "Ok" THEN "SocketInUse" ELSE "remove_file"

\* The match on the result of connect (control.rs:26-32)
MatchConnect(res) ==
    IF res = "Ok" THEN "SocketInUse"
    ELSE IF res # "ConnectionRefused" THEN "Io"
    ELSE "remove_file"

\* control.rs:22: try_exists(CONTROL_SOCKET_ADDR).await?
TryExists ==
    /\ cph = "try_exists"
    /\ IF ~cin.try_exists_ok
       THEN cph' = "returned" /\ cres' = [cres EXCEPT !.result = "Io"]
       ELSE cph' = (IF cin.file THEN "connect" ELSE "bind") /\ cres' = cres
    /\ UNCHANGED <<cin, cbuf, schedVars, stateVars, obsVars>>

\* control.rs:26-32: UnixStream::connect and the match on its result
Connect ==
    /\ cph = "connect"
    /\ LET arm == MatchConnect(cin.connect)
       IN  IF arm = "remove_file"
           THEN cph' = "remove_file" /\ cres' = [cres EXCEPT !.connect_called = TRUE]
           ELSE cph' = "returned"
                /\ cres' = [cres EXCEPT !.connect_called = TRUE, !.result = arm]
    /\ UNCHANGED <<cin, cbuf, schedVars, stateVars, obsVars>>

\* control.rs:34: remove_file(CONTROL_SOCKET_ADDR).await?
RemoveFile ==
    /\ cph = "remove_file"
    /\ IF cin.remove_ok
       THEN cph' = "bind"
            /\ cres' = [cres EXCEPT !.remove_called = TRUE, !.removed = TRUE]
       ELSE cph' = "returned"
            /\ cres' = [cres EXCEPT !.remove_called = TRUE, !.result = "Io"]
    /\ UNCHANGED <<cin, cbuf, schedVars, stateVars, obsVars>>

\* control.rs:37: UnixListener::bind(CONTROL_SOCKET_ADDR)?, then the accept loop
Bind ==
    /\ cph = "bind"
    /\ IF cin.bind_ok
       THEN cph' = "accept"
            /\ cres' = [cres EXCEPT !.bind_called = TRUE, !.result = "listening"]
       ELSE cph' = "returned"
            /\ cres' = [cres EXCEPT !.bind_called = TRUE, !.result = "Io"]
    /\ UNCHANGED <<cin, cbuf, schedVars, stateVars, obsVars>>

NextListen == TryExists \/ Connect \/ RemoveFile \/ Bind

SpecListen == InitListen /\ [][NextListen]_vars

\* C20: if the socket path exists and a connect succeeds, control_loop fails
\* with SocketInUse without removing the file or binding; if the connect is
\* refused, the stale file is removed and the listener binds; any other
\* connect error is propagated without removing the file; if the path does
\* not exist the listener binds directly.  (remove_file and bind can fail
\* themselves: their error is then the result.)
C20_ListenerStartup ==
    (cph \in {"returned", "accept"} /\ cin.try_exists_ok) =>
        /\ (cin.file /\ cin.connect = "Ok")
              => /\ cres.result = "SocketInUse"
                 /\ ~cres.remove_called /\ ~cres.bind_called
        /\ (cin.file /\ cin.connect = "ConnectionRefused")
              => /\ cres.remove_called
                 /\ cin.remove_ok => (cres.removed /\ cres.bind_called)
                 /\ (cin.remove_ok /\ cin.bind_ok) => cres.result = "listening"
                 /\ ~cin.remove_ok => (cres.result = "Io" /\ ~cres.bind_called)
        /\ (cin.file /\ cin.connect = "PermissionDenied")
              => /\ cres.result = "Io"
                 /\ ~cres.remove_called /\ ~cres.bind_called
        /\ ~cin.file
              => /\ ~cres.connect_called /\ ~cres.remove_called
                 /\ cres.bind_called
                 /\ cin.bind_ok => cres.result = "listening"

\* A stale socket file was removed and the listener accepts connections
C20_Witness ==
    /\ cph = "accept"
    /\ cin.file /\ cin.connect = "ConnectionRefused"
    /\ cres.removed /\ cres.result = "listening"

\* ---------------------------------------------------------------------------
\* Prefix Information options of an RA (main.rs:270-287)
\* ---------------------------------------------------------------------------

\* The options pi are, for the table and the time given, one option for each
\* prefix whose valid lifetime has time remaining and none for another prefix,
\* each with both flags set and the remaining lifetimes of its prefix
OnePerValidPrefix(pi, table, t) ==
    /\ \A p \in table :
          LET mine == { o \in pi : o.prefix = p.prefix } IN
          IF duration(p.valid_lifetime, t) > 0
          THEN /\ Cardinality(mine) = 1
               /\ \A o \in mine :
                     /\ o.prefix_length = p.prefix_length
                     /\ o.on_link /\ o.autonomous
                     /\ o.preferred_lifetime = duration(p.preferred_lifetime, t)
                     /\ o.valid_lifetime = duration(p.valid_lifetime, t)
          ELSE mine = {}
    /\ \A o \in pi : \E p \in table : p.prefix = o.prefix

\* C21: every non-shutdown RA contains exactly one PrefixInformation option for
\* each prefix of the table whose valid lifetime has remaining time > 0 at
\* emission and none for any other prefix, each with on_link = true,
\* autonomous = true and the prefix's current preferred and valid remaining
\* seconds: while the RA is with send_to, its options are those of the table.
C21_PrefixOptionsAtEmission ==
    (pc = "send" /\ ~out.sd) => OnePerValidPrefix(out.pi, prefixes, now)

\* C21, amended: the options are those of the table as it is when the
\* scheduler builds the packet, before send_to is awaited.
C21_PrefixOptionsAtBuild ==
    [][(pc # "send" /\ pc' = "send" /\ ~out'.sd)
        => OnePerValidPrefix(out'.pi, prefixes, now)]_vars

\* An RA with a prefix option is with send_to while the table also holds a
\* prefix whose valid lifetime has run out, which the RA leaves out
C21_Witness ==
    /\ pc = "send" /\ ~out.sd
    /\ out.pi # {}
    /\ \E p \in prefixes : duration(p.valid_lifetime, now) = 0
    /\ OnePerValidPrefix(out.pi, prefixes, now)

\* ---------------------------------------------------------------------------
\* Order of the options of an RA (main.rs:251-287)
\* ---------------------------------------------------------------------------
\* 2001:db8::/64, 2001:db8:1::/64 and 2001:db8:2::/64
OrderPrefixes ==
    { MkPrefix(a, 64, LtDuration(1800), LtDuration(3600)) :
        a \in {DocPrefix, DocPrefix2, Ipv6AddrNew(8193, 3512, 2, 0, 0, 0, 0, 0)} }

\* fe80::1, 2001:db8::53 and 2001:db8::1:53
OrderDnsServers ==
    { HostAddr,
      Ipv6AddrNew(8193, 3512, 0, 0, 0, 0, 0, 83),
      Ipv6AddrNew(8193, 3512, 0, 0, 0, 0, 1, 83) }

\* HashMap::values() and HashSet::iter() visit every element once, in an
\* order that the hasher's per-process random keys decide: any order
Iterations(S) ==
    { s \in [1..Cardinality(S) -> S] :
        \A i, j \in 1..Cardinality(S) : i # j => s[i] # s[j] }

\* One pushed option per visited prefix that is still valid
RECURSIVE PushPrefixes(_, _)
PushPrefixes(it, t) ==
    IF it = <<>> THEN <<>>
    ELSE LET p == Head(it) IN
         (IF duration(p.valid_lifetime, t) = 0 THEN <<>>
          ELSE << PrefixInformation(p.prefix_length, TRUE, TRUE,
                                    duration(p.valid_lifetime, t),
                                    duration(p.preferred_lifetime, t),
                                    p.prefix) >>)
         \o PushPrefixes(Tail(it), t)

\* The options vector of the RA, for the orders in which the DNS set and
\* the prefix table are visited
RaOptions(dns, it, t) ==
    << SourceLinkLayerAddress(Mac) >>
    \o (IF cfg.mtu # 0 THEN << Mtu(cfg.mtu) >> ELSE <<>>)
    \o (IF dns # <<>> THEN << RecursiveDnsServer(from_secs(3600), dns) >> ELSE <<>>)
    \o PushPrefixes(it, t)

InitOrder ==
    /\ now = 0 /\ cfg = [min |-> 3, max |-> 1800, mtu |-> 1500] /\ pc = "off"
    /\ last_multicast_ra = 0 /\ next_multicast_ra = 0 /\ initial_ras_sent = 0
    /\ sleep_ts = 0 /\ out = NoRA /\ shutdown = FALSE /\ cmd_rx = <<>>
    /\ prefixes \in SUBSET OrderPrefixes
    /\ dns_servers \in SUBSET OrderDnsServers
    /\ ReaperOff
    /\ last_ra = NoneSent /\ prev_mcast = -1 /\ mcast_since_cfg = 0
    /\ zero_mcast = 0 /\ n_final = 0 /\ n_ras = 0 /\ n_rs = 0 /\ n_cfg = 0
    /\ cph = "build" /\ cin = <<>> /\ cbuf = <<>> /\ cres = <<>>

\* The scheduler builds the options of an RA from the shared state
BuildOptions ==
    /\ cph = "build"
    /\ \E dns \in Iterations(dns_servers), it \in Iterations(prefixes) :
          cres' = RaOptions(dns, it, now)
    /\ cph' = "built"
    /\ UNCHANGED <<cin, cbuf, schedVars, stateVars, obsVars>>

NextOrder == BuildOptions
SpecOrder == InitOrder /\ [][NextOrder]_vars

\* a < b as 128-bit numbers
AddrLess(a, b) ==
    \E i \in 1..16 : a[i] < b[i] /\ \A j \in 1..(i - 1) : a[j] = b[j]

Ascending(addrs) ==
    \A i, j \in 1..Len(addrs) : i < j => AddrLess(addrs[i], addrs[j])

\* C22: the PrefixInformation options of an RA appear in ascending order of
\* prefix address and the addresses of the RecursiveDnsServer option appear in
\* ascending order, whatever the order in which they were added.
C22_AscendingOrder ==
    cph = "built" =>
        /\ \A i, j \in 1..Len(cres) :
              (i < j /\ cres[i].opt = "PrefixInformation"
                     /\ cres[j].opt = "PrefixInformation")
                  => AddrLess(cres[i].prefix, cres[j].prefix)
        /\ \A i \in 1..Len(cres) :
              cres[i].opt = "RecursiveDnsServer" => Ascending(cres[i].addrs)

\* ---------------------------------------------------------------------------
\* Width of the encoded durations (ndp.rs:106-136, 202-234)
\* ---------------------------------------------------------------------------

\* C23: encoding saturates durations: a RouterLifetime longer than 65535 s is
\* encoded as 65535, never as the value modulo 2^16.  The field is the two
\* bytes after the ICMPv6 header, the hop limit and the flags.
C23_RouterLifetimeSaturates ==
    cph = "wide_encoded" =>
        get_u16(SubSeq(cbuf, 7, 8))
            = Min(as_secs(cin.content.router_lifetime), 65535)

\* ---------------------------------------------------------------------------
\* One control connection (control.rs:46-111)
\* ---------------------------------------------------------------------------
MaxFrames == 3      \* frames a client writes to the connection

\* Response::encode (lib.rs:294-303)
ResponseEncode(resp) == put_u32_le(0)

\* A length-prefixed frame (lib.rs:341-343, control.rs:102-104)
Frame(body) == put_u32_le(Len(body)) \o body

\* What a client writes: three requests and a payload of an unknown tag
ConnBodies ==
    { RequestEncode(AddPrefix(MkPrefix(DocPrefix, 48, LtUntil(2), LtUntil(4)))),
      RequestEncode(RemovePrefix(MkPrefix(DocPrefix, 64, LtDuration(0), LtDuration(0)))),
      RequestEncode(AddDnsServer(DnsServer(HostAddr, LtDuration(3600)))),
      put_u32_le(9) }

ConnStreams ==
    UNION { [1..n -> ConnBodies] : n \in 0..MaxFrames }

\* The next state after the mutation: the response is handed to write_all
AfterApplySkipWrite == "read"

AfterApply == "write"

\* The match of control.rs:71-95 on the shared tables
ApplyPrefixes(req, table) ==
    CASE req.kind = "AddPrefix" ->
            Insert(table, MkPrefix(req.prefix.prefix, req.prefix.prefix_length,
                                   req.prefix.preferred_lifetime,
                                   req.prefix.valid_lifetime))
      [] req.kind = "RemovePrefix" -> Remove(table, req.prefix.prefix)
      [] OTHER -> table

ApplyDns(req, set) ==
    CASE req.kind = "AddDnsServer" -> set \cup {req.server.addr}
      [] req.kind = "RemoveDnsServer" -> set \ {req.server.addr}
      [] OTHER -> set

\* cin is what the client has written and the server has not yet read, cbuf
\* what the server has written; cres keeps the bodies the client wrote, the
\* requests applied for this connection and the order of events
InitConn ==
    /\ now = 0
    /\ cfg = [min |-> 3, max |-> 1800, mtu |-> 1500]
    /\ pc = "select"
    /\ last_multicast_ra = 0 /\ next_multicast_ra = 0 /\ initial_ras_sent = 0
    /\ sleep_ts = 0 /\ out = NoRA /\ shutdown = FALSE /\ cmd_rx = <<>>
    /\ prefixes \in DbSnapshots
    /\ dns_servers = {}
    /\ ReaperOff
    /\ last_ra = NoneSent /\ prev_mcast = -1 /\ mcast_since_cfg = 0
    /\ zero_mcast = 0 /\ n_final = 0 /\ n_ras = 0 /\ n_rs = 0 /\ n_cfg = 0
    /\ cph = "read"
    /\ \E bodies \in ConnStreams :
          /\ cin = Concat([i \in 1..Len(bodies) |-> Frame(bodies[i])])
          /\ cres = [bodies |-> bodies, applied |-> <<>>, log |-> <<>>,
                     write_failed |-> FALSE]
    /\ cbuf = <<>>

\* The two read_exact calls, Request::decode and the match on the request
\* (control.rs:47-96): nothing is awaited between the end of the second read
\* and the call of write_all.  A short read or a payload that does not
\* decode ends the task.
ConnRead ==
    /\ cph = "read"
    /\ IF Len(cin) < 4
       THEN /\ cph' = "closed"
            /\ UNCHANGED <<cin, cres, prefixes, dns_servers, config_changed>>
       ELSE LET len  == Min(get_u32_le(Take(cin, 4)), 65535)
                rest == Drop(cin, 4)
            IN  IF Len(rest) < len
                THEN /\ cph' = "closed"
                     /\ UNCHANGED <<cin, cres, prefixes, dns_servers, config_changed>>
                ELSE LET r == RequestDecode(Take(rest, len)) IN
                     /\ cin' = Drop(rest, len)
                     /\ IF ~r.ok
                        THEN /\ cph' = "closed"
                             /\ UNCHANGED <<cres, prefixes, dns_servers, config_changed>>
                        ELSE /\ prefixes' = ApplyPrefixes(r.req, prefixes)
                             /\ dns_servers' = ApplyDns(r.req, dns_servers)
                             /\ config_changed' =
                                   IF r.req.kind \in {"AddPrefix", "RemovePrefix"}
                                   THEN TRUE ELSE config_changed
                             /\ cres' = [cres EXCEPT
                                   !.applied = Append(@, r.req),
                                   !.log = Append(@, [ev |-> "apply",
                                                      n |-> Len(cres.applied) + 1])]
                             /\ cph' = AfterApply
    /\ UNCHANGED <<cbuf, schedVars, reaperVars, ctlObsVars, obsVars>>

\* write_all (control.rs:98-109) completes, or fails and ends the task
ConnWrite ==
    /\ cph = "write"
    /\ \/ /\ cbuf' = cbuf \o Frame(ResponseEncode("Ok"))
          /\ cres' = [cres EXCEPT
                !.log = Append(@, [ev |-> "resp", n |-> Len(cres.applied)])]
          /\ cph' = "read"
       \/ /\ cres' = [cres EXCEPT !.write_failed = TRUE]
          /\ cph' = "closed"
          /\ UNCHANGED cbuf
    /\ UNCHANGED <<cin, schedVars, stateVars, obsVars>>

\* handle_conn is the task of any other connection
NextConn == ConnRead \/ ConnWrite \/ handle_conn
SpecConn == InitConn /\ [][NextConn]_vars

\* The first n requests of the connection were applied in the order of their
\* frames, one Ok frame was written for each, the response of request k
\* follows its mutation and precedes the mutation of request k + 1, and while
\* a response is being written the frames after it are still unread
InOrderWithResponses ==
    LET n    == Len(cres.applied)
        sent == Len(cbuf) \div 8
        left == Len(cres.bodies) - n
    IN  /\ n <= Len(cres.bodies)
        /\ \A i \in 1..n : RequestDecode(cres.bodies[i]) = CtlOk(cres.applied[i])
        /\ cbuf = Concat([i \in 1..sent |-> <<4, 0, 0, 0, 0, 0, 0, 0>>])
        /\ sent = n - (IF cph = "write" \/ cres.write_failed THEN 1 ELSE 0)
        /\ \A k \in 1..Len(cres.log) :
              cres.log[k] = IF k % 2 = 1
                            THEN [ev |-> "apply", n |-> (k + 1) \div 2]
                            ELSE [ev |-> "resp", n |-> k \div 2]
        /\ cph = "write" =>
              cin = Concat([i \in 1..left |-> Frame(cres.bodies[n + i])])

\* The step that applies a request leaves its effect in the shared state
MutationApplied ==
    Len(cres'.applied) = Len(cres.applied) + 1 =>
        LET req == cres'.applied[Len(cres'.applied)] IN
        /\ req.kind = "AddPrefix" =>
              { p \in prefixes' : p.prefix = req.prefix.prefix }
                  = { MkPrefix(req.prefix.prefix, req.prefix.prefix_length,
                               req.prefix.preferred_lifetime,
                               req.prefix.valid_lifetime) }
        /\ req.kind = "RemovePrefix" =>
              \A p \in prefixes' : p.prefix # req.prefix.prefix
        /\ req.kind = "AddDnsServer" => req.server.addr \in dns_servers'
        /\ Len(cbuf') = Len(cbuf)

\* C24: on one control connection, requests are applied to shared state in
\* the order their frames were received, and each successfully decoded
\* request produces exactly one Ok response frame, sent after its mutation
\* has been applied and before the next request of that connection is read.
C24_ConnectionOrder ==
    []InOrderWithResponses /\ [][MutationApplied]_vars

\* Three pipelined requests were applied and answered in order while another
\* connection had a request applied in between
C24_Witness ==
    /\ cph = "read"
    /\ Len(cres.applied) = 3
    /\ cres.applied[1].kind = "AddPrefix"
    /\ cres.applied[2].kind = "AddDnsServer"
    /\ cres.applied[3].kind = "RemovePrefix"
    /\ Len(cbuf) = 24
    /\ n_ctl = 1 /\ last_req.kind = "AddPrefix"

\* ---------------------------------------------------------------------------
\* Restart from the saved Database (main.rs:125-160)
\* ---------------------------------------------------------------------------

\* The loop of main.rs:136-152: every record of the Database is inserted
\* under its address, a later record replacing an earlier one
Loaded(d) ==
    { MkPrefix(d.prefixes[i].prefix, d.prefixes[i].prefix_length,
               d.prefixes[i].preferred, d.prefixes[i].valid) :
        i \in { k \in DOMAIN d.prefixes :
                  \A j \in DOMAIN d.prefixes :
                      j > k => d.prefixes[j].prefix # d.prefixes[k].prefix } }

\* The daemon ends while the reaper waits with its Database saved, and is
\* started again: State is created with empty tables (main.rs:125-130), the
\* Database is loaded and its prefixes are inserted (main.rs:132-160), the
\* tasks start anew.  The wall clock goes on.  cres keeps the Database that
\* was on disk.
Restart ==
    /\ cph = "idle"
    /\ rpc = "wait" /\ n_pass >= 1
    /\ pc = "select"
    /\ prefixes' = Loaded(db)
    /\ dns_servers' = {}
    /\ config_changed' = FALSE
    /\ next_prefix_lifetime' = <<>> /\ rdeadline' = 0 /\ rclone' = {}
    /\ pc' = "start"
    /\ last_multicast_ra' = now /\ next_multicast_ra' = now
    /\ initial_ras_sent' = 0 /\ sleep_ts' = 0
    /\ out' = NoRA /\ cmd_rx' = <<>>
    /\ cph' = "restarted"
    /\ cres' = db
    /\ UNCHANGED <<now, cfg, shutdown, rpc, db, ctlObsVars, obsVars, cin, cbuf>>

NextRestart == NextState \/ Restart
SpecRestart == InitState /\ [][NextRestart]_vars

\* C25: persistence round trip: after a reaper pass has saved the snapshot and
\* the daemon is restarted from it, the in-memory prefix table equals the
\* saved prefixes (address, length, both lifetimes with their tag) and the
\* in-memory DNS set equals the saved dns_servers.
C25_PersistenceRoundTrip ==
    [][(cph = "idle" /\ cph' = "restarted")
        => /\ prefixes' = { MkPrefix(db.prefixes[i].prefix, db.prefixes[i].prefix_length,
                                      db.prefixes[i].preferred, db.prefixes[i].valid) :
                              i \in DOMAIN db.prefixes }
           /\ dns_servers' = { db.dns_servers[i] : i \in DOMAIN db.dns_servers }]_vars

\* ---------------------------------------------------------------------------
\* Tasks that end with an error (main.rs:165-173, 335-345)
\* ---------------------------------------------------------------------------

\* cres is the set of tasks that have ended with an error
InitFail ==
    /\ now = 0
    /\ cfg = [min |-> 3, max |-> 1800, mtu |-> 1500]
    /\ pc = "start"
    /\ last_multicast_ra = 0 /\ next_multicast_ra = 0 /\ initial_ras_sent = 0
    /\ sleep_ts = 0 /\ out = NoRA /\ shutdown = FALSE /\ cmd_rx = <<>>
    /\ prefixes \in DbSnapshots
    /\ dns_servers = {}
    /\ ReaperOff
    /\ last_ra = NoneSent /\ prev_mcast = -1 /\ mcast_since_cfg = 0
    /\ zero_mcast = 0 /\ n_final = 0 /\ n_ras = 0 /\ n_rs = 0 /\ n_cfg = 0
    /\ cph = "tasks" /\ cin = <<>> /\ cbuf = <<>> /\ cres = {}

\* control_loop returns an error (control.rs:21-44): the task that awaits it
\* logs the error and calls SHUTDOWN.quit() (main.rs:168-171)
ControlLoopError ==
    /\ cph = "tasks"
    /\ pc \in {"select", "send"}
    /\ "control_loop" \notin cres
    /\ cres' = cres \cup {"control_loop"}
    /\ shutdown' = TRUE
    /\ UNCHANGED <<now, cfg, pc, last_multicast_ra, next_multicast_ra,
                   initial_ras_sent, sleep_ts, out, cmd_rx>>
    /\ UNCHANGED <<stateVars, obsVars, cph, cin, cbuf>>

\* socket.recv_from() returns an error (main.rs:338-345): the RS receiver
\* logs it and returns
RecvError ==
    /\ cph = "tasks"
    /\ pc \in {"select", "send"}
    /\ "rs_receiver" \notin cres
    /\ cres' = cres \cup {"rs_receiver"}
    /\ UNCHANGED <<schedVars, stateVars, obsVars, cph, cin, cbuf>>

NextFail ==
    \/ SchedStart \/ SchedShutdown \/ SchedTick \/ SchedSent \/ Advance
    \/ ControlLoopError \/ RecvError
SpecFail == InitFail /\ [][NextFail]_vars

\* C26: a fatal error that ends any of the long-lived tasks raises the global
\* shutdown signal: in the step in which a task ends with an error, the
\* signal is raised.
C26_TaskErrorRaisesShutdown ==
    [][cres' # cres => shutdown']_vars

\* ---------------------------------------------------------------------------
\* The RS receiver at a full command channel (main.rs:175, 335-354)
\* ---------------------------------------------------------------------------

MaxChanRAs == 3     \* RAs after which the clock of this specification stops

\* cph is the position of the RS receiver, cin the command it is sending
InitChan ==
    /\ now = 0
    /\ cfg = [min |-> 3, max |-> 1800, mtu |-> 1500]
    /\ pc = "start"
    /\ last_multicast_ra = 0 /\ next_multicast_ra = 0 /\ initial_ras_sent = 0
    /\ sleep_ts = 0 /\ out = NoRA /\ shutdown = FALSE /\ cmd_rx = <<>>
    /\ prefixes \in DbSnapshots
    /\ dns_servers = {}
    /\ ReaperOff
    /\ last_ra = NoneSent /\ prev_mcast = -1 /\ mcast_since_cfg = 0
    /\ zero_mcast = 0 /\ n_final = 0 /\ n_ras = 0 /\ n_rs = 0 /\ n_cfg = 0
    /\ cph = "recv_from" /\ cin = <<>> /\ cbuf = <<>> /\ cres = <<>>

\* socket.recv_from() returns a datagram (main.rs:338-349): one that is not
\* a valid solicitation is skipped, for a valid one cmd_tx.send is called
RsRecv ==
    /\ cph = "recv_from"
    /\ pc \in {"select", "sleep", "send"}
    /\ n_rs <= MaxRS
    /\ \E d \in Datagrams :
          IF router_solicit_is_valid(d.src, d.packet)
          THEN /\ cin' = <<SendRouterAdvertisement(d.src, now)>>
               /\ cph' = "send"
          ELSE UNCHANGED <<cin, cph>>
    /\ UNCHANGED <<cbuf, cres, schedVars, stateVars, obsVars>>

\* cmd_tx.send(..).await (main.rs:351) completes once the channel has room
RsSend ==
    /\ cph = "send"
    /\ Len(cmd_rx) < ChanCap
    /\ cmd_rx' = Append(cmd_rx, cin[1])
    /\ n_rs' = n_rs + 1
    /\ cin' = <<>>
    /\ cph' = "recv_from"
    /\ UNCHANGED <<now, cfg, pc, last_multicast_ra, next_multicast_ra,
                   initial_ras_sent, sleep_ts, out, shutdown>>
    /\ UNCHANGED <<stateVars, last_ra, prev_mcast, mcast_since_cfg, zero_mcast,
                   n_final, n_ras, n_cfg, cbuf, cres>>

\* Time passes while the scheduler waits: up to what it waits for, or up to
\* a quarter of a second before it
AdvanceChan ==
    /\ Waiting
    /\ n_ras < MaxChanRAs
    /\ now' \in { t \in {Deadline - 250, Deadline} : t > now }
    /\ UNCHANGED <<cfg, pc, last_multicast_ra, next_multicast_ra,
                   initial_ras_sent, sleep_ts, out, shutdown, cmd_rx>>
    /\ UNCHANGED <<stateVars, obsVars, codecVars>>

NextChan ==
    \/ SchedStart \/ SchedTick \/ SchedSolicited \/ SchedWake \/ SchedSent
    \/ RsRecv \/ RsSend \/ AdvanceChan
SpecChan == InitChan /\ [][NextChan]_vars

\* C27: when the bounded command channel is full, the RS receiver drops the
\* validated solicitation and goes on to read the next datagram; it never
\* waits for channel capacity: the receiver is never in cmd_tx.send with a
\* solicitation in hand while the channel is full.
C27_NeverWaitsForCapacity ==
    ~(cph = "send" /\ Len(cmd_rx) = ChanCap)

\* ---------------------------------------------------------------------------
\* Locks of the shared tables and the points of suspension
\* (control.rs:46-111, main.rs:257-306, 359-427)
\* ---------------------------------------------------------------------------
Await(what)         == << [op |-> "await", on |-> what] >>
Acquire(lock, mode) == [op |-> "acquire", lock |-> lock, mode |-> mode]
Release(lock, mode) == [op |-> "release", lock |-> lock, mode |-> mode]

\* A guard that is still alive at the next await
GuardKept(lock, mode) == << Acquire(lock, mode) >>

\* state.x.write().f(..), state.x.read().clone(), a guard bound in a block
\* and the guard of a for loop's iterator: the guard is dropped at the end
\* of the statement, block or loop, in which nothing is awaited
Guard(lock, mode) == << Acquire(lock, mode), Release(lock, mode) >>

RequestKinds == {"AddPrefix", "RemovePrefix", "AddDnsServer", "RemoveDnsServer"}

\* handle_conn (control.rs:46-111) for a request of kind k
ConnProgram(k) ==
    Await("read_exact")
    \o (IF k \in {"AddPrefix", "RemovePrefix"}
        THEN Guard("prefixes", "write") ELSE Guard("dns_servers", "write"))
    \o Await("write_all")

\* The reaper (main.rs:359-427)
ReaperProgram ==
    Await("config_changed")
    \o Guard("prefixes", "write")
    \o Await("cmd_tx.send")
    \o Guard("prefixes", "read")
    \o Await("add_addr")
    \o Guard("dns_servers", "read")

\* The scheduler (main.rs:201-306)
SchedulerProgram ==
    Await("select")
    \o Guard("dns_servers", "read")
    \o Guard("prefixes", "read")
    \o Await("send_to")

LockTasks == {"conn1", "conn2", "reaper", "scheduler"}

Program(t, k) ==
    CASE t = "reaper" -> ReaperProgram
      [] t = "scheduler" -> SchedulerProgram
      [] OTHER -> ConnProgram(k)

\* parking_lot::RwLock: a write lock excludes every other guard, a read lock
\* excludes a write guard
Conflicts(lock, mode, others) ==
    \E g \in others : g[1] = lock /\ (mode = "write" \/ g[2] = "write")

\* The task runs from the await at index i to its next await; it stops
\* before an acquire that a guard of another task excludes
RECURSIVE RunToAwait(_, _, _, _)
RunToAwait(prog, i, held, others) ==
    LET j  == (i % Len(prog)) + 1
        op == prog[j]
    IN  CASE op.op = "await" -> [at |-> j, held |-> held, blocked |-> FALSE]
          [] op.op = "acquire" ->
                IF Conflicts(op.lock, op.mode, others)
                THEN [at |-> i, held |-> held, blocked |-> TRUE]
                ELSE RunToAwait(prog, j, held \cup {<<op.lock, op.mode>>}, others)
          [] op.op = "release" ->
                RunToAwait(prog, j, held \ {<<op.lock, op.mode>>}, others)

\* cres holds, for every task, the await at which it is suspended, the kind
\* of the request a connection is answering and the guards it holds
InitLock ==
    /\ SchedOff
    /\ cph = "locks" /\ cin = <<>> /\ cbuf = <<>>
    /\ cres = [at |-> [t \in LockTasks |-> 1],
               kind |-> [t \in LockTasks |-> "none"],
               held |-> [t \in LockTasks |-> {}],
               blocked |-> FALSE]

\* The runtime polls one task: it runs until it awaits again
TaskRun ==
    /\ cph = "locks"
    /\ ~cres.blocked
    /\ \E t \in LockTasks, k \in RequestKinds :
          LET kk     == IF cres.at[t] = 1 THEN k ELSE cres.kind[t]
              others == UNION { cres.held[u] : u \in LockTasks \ {t} }
              r      == RunToAwait(Program(t, kk), cres.at[t], cres.held[t], others)
          IN  cres' = [at |-> [cres.at EXCEPT ![t] = r.at],
                       kind |-> [cres.kind EXCEPT
                                   ![t] = IF r.at = 1 \/ t \in {"reaper", "scheduler"}
                                          THEN "none" ELSE kk],
                       held |-> [cres.held EXCEPT ![t] = r.held],
                       blocked |-> r.blocked]
    /\ UNCHANGED <<cph, cin, cbuf, schedVars, stateVars, obsVars>>

NextLock == TaskRun
SpecLock == InitLock /\ [][NextLock]_vars

\* C28: in every reachable state in which a task is suspended, that task
\* holds no write lock on the prefix table or the DNS set; hence no task
\* ever blocks on these locks.
C28_NoWriteLockAcrossAwait ==
    /\ \A t \in LockTasks : \A g \in cres.held[t] : g[2] # "write"
    /\ ~cres.blocked

\* Both connections wait in write_all after a prefix and a DNS mutation while
\* the reaper, after retain, waits in cmd_tx.send and the scheduler in send_to
C28_Witness ==
    /\ cres.kind["conn1"] = "AddPrefix" /\ cres.at["conn1"] = 4
    /\ cres.kind["conn2"] = "AddDnsServer" /\ cres.at["conn2"] = 4
    /\ cres.at["reaper"] = 4
    /\ cres.at["scheduler"] = 6
    /\ \A t \in LockTasks : cres.held[t] = {}

\* ---------------------------------------------------------------------------
\* The SendRouterAdvertisement arm (main.rs:210-232)
\* ---------------------------------------------------------------------------

\* The scheduler takes a SendRouterAdvertisement command from the channel
HandlesSolicitation ==
    /\ pc = "select"
    /\ cmd_rx # <<>>
    /\ Head(cmd_rx).kind = "SendRouterAdvertisement"
    /\ cmd_rx' = Tail(cmd_rx)

\* No RA is prepared in the step
NoRAInStep == pc' = "select" /\ out' = out

\* The delay d is one that rng.gen_range(0..MAX_RA_DELAY_TIME) can return
\* and the request with it is not to be discarded
KeptDelay(d) ==
    /\ 0 <= d /\ d < MAX_RA_DELAY_TIME
    /\ now + d <= next_multicast_ra

\* C29: when the scheduler handles SendRouterAdvertisement(src) and
\* now + delay > next_multicast_ra, it emits no RA for that request and leaves
\* last_multicast_ra, next_multicast_ra and initial_ras_sent unchanged: a
\* step that handles the command and prepares an RA or changes one of the
\* three shows a delay with now + delay <= next_multicast_ra.
C29_DiscardLeavesSchedule ==
    [][HandlesSolicitation =>
        \/ /\ NoRAInStep
           /\ last_multicast_ra' = last_multicast_ra
           /\ next_multicast_ra' = next_multicast_ra
           /\ initial_ras_sent' = initial_ras_sent
        \/ KeptDelay(IF pc' = "sleep" THEN sleep_ts' - now
                     ELSE IF pc' = "send" THEN 0
                     ELSE next_multicast_ra' - next_multicast_ra
                          - Max(MIN_DELAY_BETWEEN_RAS
                                - Max(now - last_multicast_ra, 0), 0))]_vars

\* The one solicitation forwarded so far was handled a quarter of a second
\* before the second multicast RA, less than 3 s after the first: it was
\* answered by no RA and the schedule is that of the first RA
C29_Witness ==
    /\ pc = "select" /\ cmd_rx = <<>> /\ cph = "recv_from"
    /\ n_rs = 1 /\ n_ras = 1
    /\ now = 2750
    /\ last_multicast_ra = 0 /\ next_multicast_ra = 3000
    /\ initial_ras_sent = 1

\* The step of the arm for the unspecified source, for the time since the
\* last multicast RA given: no RA, last_multicast_ra and initial_ras_sent
\* as they were, and next_multicast_ra moved by the rest of the 3 s plus a
\* delay, unless the request was discarded
UnspecifiedArm(since) ==
    (HandlesSolicitation /\ is_unspecified(Head(cmd_rx).addr)) =>
        /\ NoRAInStep
        /\ last_multicast_ra' = last_multicast_ra
        /\ initial_ras_sent' = initial_ras_sent
        /\ \/ /\ now + (MAX_RA_DELAY_TIME - 1) > next_multicast_ra
              /\ next_multicast_ra' = next_multicast_ra
           \/ KeptDelay(next_multicast_ra' - next_multicast_ra
                        - Max(0, MIN_DELAY_BETWEEN_RAS - since))

ShortestValid(table, t) ==
    IF table = {} THEN <<>>
    ELSE LET ds == { duration(p.valid_lifetime, t) : p \in table }
         IN  <<CHOOSE d \in ds : \A e \in ds : d <= e>>

\* The step in which the reaper leaves its wait and runs retain
RetainStep == rpc = "wait" /\ (rpc' # "wait" \/ n_pass' # n_pass)

\* C31: after every reaper pass next_prefix_lifetime equals the minimum
\* remaining valid lifetime over the prefixes currently in the table, and is
\* absent when the table is empty; it keeps no smaller value from an earlier
\* pass or from a prefix that has since been removed.
C31_NextPrefixLifetimeIsMinimum ==
    [][RetainStep => next_prefix_lifetime' = ShortestValid(prefixes', now)]_vars

(***************************************************************************)
(* The order of the steps of one reaper pass (main.rs:370-427).            *)
(***************************************************************************)
\* The records of the clone for which add_addr was not called yet while the
\* reaper awaits the answer to its first call (main.rs:392-403)
AddrPending ==
    IF rpc = "add_addr" /\ rclone # {}
    THEN rclone \ {values(rclone)[1]}
    ELSE {}

\* The step in which the reaper puts NewConfig into the channel
EnqueuesNewConfig ==
    /\ Len(cmd_rx') = Len(cmd_rx) + 1
    /\ cmd_rx'[Len(cmd_rx')].kind = "NewConfig"

\* The step in which the RA that a NewConfig triggered goes out
EmitsConfigRA == pc = "send" /\ pc' # "send" /\ out.by = "config"

\* NewConfig is enqueued by the step that has saved the snapshot
SavedBeforeNewConfig ==
    EnqueuesNewConfig => (rpc' = "wait" /\ n_pass' = n_pass + 1)

\* No prefix of the RA is one whose address was not requested yet
RequestedBeforeRA ==
    EmitsConfigRA => \A p \in AddrPending : \A o \in out.pi : o.prefix # p.prefix

\* C32: within one reaper pass the steps run in the order: remove expired
\* prefixes, request the host address of each remaining prefix, persist the
\* snapshot, and only then enqueue NewConfig; so the RA triggered by that
\* NewConfig is never emitted before the addresses of the announced
\* prefixes were requested on the interface.
C32_NewConfigLast ==
    [][SavedBeforeNewConfig /\ RequestedBeforeRA]_vars

\* The second half of C32 alone
C32_RequestedBeforeRA == [][RequestedBeforeRA]_vars

(***************************************************************************)
(* Control frames that do not decode (lib.rs:121-248, control.rs:63-69).   *)
(***************************************************************************)
MaxEarlier == 2     \* requests of the connection before the malformed frame

\* The payloads of well-formed requests
GoodBodies ==
    { RequestEncode(AddPrefix(MkPrefix(DocPrefix2, 64, LtDuration(1), LtDuration(2)))),
      RequestEncode(RemovePrefix(MkPrefix(DocPrefix, 64, LtDuration(0), LtDuration(0)))),
      RequestEncode(AddDnsServer(DnsServer(HostAddr, LtDuration(3600)))) }

\* Payloads with a discriminator that is no request kind
BadDiscriminator == { put_u32_le(0), put_u32_le(9) }

\* Payloads of full length whose lifetime tag is neither 1 nor 2: the
\* preferred and the valid lifetime of AddPrefix, the lifetime of
\* RemoveDnsServer
BadLifetimeTag ==
    LET ap == RequestEncode(AddPrefix(MkPrefix(DocPrefix2, 64, LtDuration(1), LtDuration(2))))
        rd == RequestEncode(RemoveDnsServer(DnsServer(HostAddr, LtDuration(3600))))
    IN  { [ap EXCEPT ![22] = 0], [ap EXCEPT ![27] = 3], [rd EXCEPT ![21] = 3] }

\* Payloads that end before the last byte of their kind
Truncated ==
    LET ap == RequestEncode(AddPrefix(MkPrefix(DocPrefix2, 64, LtDuration(1), LtDuration(2))))
        ad == RequestEncode(AddDnsServer(DnsServer(HostAddr, LtDuration(3600))))
    IN  { <<>>, Take(ap, 3), Take(ap, 4), Take(ap, 30), Take(ad, 24) }

BadBodies == BadDiscriminator \cup BadLifetimeTag \cup Truncated

\* What a client writes: up to MaxEarlier requests, a malformed frame, and
\* at most one request after it
RejectStreams ==
    { e \o <<b>> \o l :
        e \in UNION { [1..n -> GoodBodies] : n \in 0..MaxEarlier },
        b \in BadBodies,
        l \in {<<>>, <<RequestEncode(AddDnsServer(DnsServer(HostAddr, LtDuration(3600))))>>} }

InitReject ==
    /\ now = 0
    /\ cfg = [min |-> 3, max |-> 1800, mtu |-> 1500]
    /\ pc = "select"
    /\ last_multicast_ra = 0 /\ next_multicast_ra = 0 /\ initial_ras_sent = 0
    /\ sleep_ts = 0 /\ out = NoRA /\ shutdown = FALSE /\ cmd_rx = <<>>
    /\ prefixes \in DbSnapshots
    /\ dns_servers = {}
    /\ ReaperOff
    /\ last_ra = NoneSent /\ prev_mcast = -1 /\ mcast_since_cfg = 0
    /\ zero_mcast = 0 /\ n_final = 0 /\ n_ras = 0 /\ n_rs = 0 /\ n_cfg = 0
    /\ cph = "read"
    /\ \E bodies \in RejectStreams :
          /\ cin = Concat([i \in 1..Len(bodies) |-> Frame(bodies[i])])
          /\ cres = [bodies |-> bodies, applied |-> <<>>, log |-> <<>>,
                     write_failed |-> FALSE]
    /\ cbuf = <<>>

SpecReject == InitReject /\ [][NextConn]_vars

\* The frame the server reads next is a malformed one
AtBadFrame ==
    /\ cph = "read"
    /\ Len(cres.applied) < Len(cres.bodies)
    /\ cres.bodies[Len(cres.applied) + 1] \in BadBodies

\* The step in which handle_conn has read that frame
ReadsBadFrame == AtBadFrame /\ cph' # cph

MaxIoErrors == 1    \* errors of each kind the socket reports

\* cph is the position of the RS receiver, cin the command it is sending,
\* cres counts the errors the socket has reported
InitIo ==
    /\ now = 0
    /\ cfg = [min |-> 3, max |-> 1800, mtu |-> 1500]
    /\ pc = "start"
    /\ last_multicast_ra = 0 /\ next_multicast_ra = 0 /\ initial_ras_sent = 0
    /\ sleep_ts = 0 /\ out = NoRA /\ shutdown = FALSE /\ cmd_rx = <<>>
    /\ prefixes \in DbSnapshots
    /\ dns_servers = {}
    /\ ReaperOff
    /\ last_ra = NoneSent /\ prev_mcast = -1 /\ mcast_since_cfg = 0
    /\ zero_mcast = 0 /\ n_final = 0 /\ n_ras = 0 /\ n_rs = 0 /\ n_cfg = 0
    /\ cph = "recv_from" /\ cin = <<>> /\ cbuf = <<>>
    /\ cres = [recv |-> 0, send |-> 0]

\* socket.recv_from() returns Err (main.rs:338-344): the error is logged and
\* the task returns
RecvFailed ==
    /\ cph = "recv_from"
    /\ pc \in {"select", "sleep", "send"}
    /\ cres.recv < MaxIoErrors
    /\ cres' = [cres EXCEPT !.recv = @ + 1]
    /\ cph' = "returned"
    /\ UNCHANGED <<cin, cbuf, schedVars, stateVars, obsVars>>

\* socket.send_to() returns Err (main.rs:304-306): the error is logged, no RA
\* is on the link, and the loop goes on with the shutdown check and the
\* update of the schedule (main.rs:308-326)
SchedSendFailed ==
    /\ pc = "send"
    /\ cres.send < MaxIoErrors
    /\ cres' = [cres EXCEPT !.send = @ + 1]
    /\ out' = NoRA
    /\ IF shutdown
       THEN /\ pc' = "done"
            /\ UNCHANGED <<last_multicast_ra, next_multicast_ra, initial_ras_sent>>
       ELSE \E sample \in UniformSamples(min_rtr_adv_interval(cfg), max_rtr_adv_interval(cfg)) :
            LET initial  == initial_ras_sent < MAX_INITIAL_RTR_ADVERTISEMENTS
                interval == IF initial THEN Min(sample, MAX_INITIAL_RTR_ADVERT_INTERVAL)
                            ELSE sample
            IN  /\ initial_ras_sent' = IF initial THEN initial_ras_sent + 1
                                       ELSE initial_ras_sent
                /\ last_multicast_ra' = next_multicast_ra
                /\ next_multicast_ra' = next_multicast_ra + interval
                /\ pc' \in IF interval >= MIN_DELAY_BETWEEN_RAS
                              /\ interval <= MAX_DELAY_BETWEEN_RAS
                           THEN {"select"} ELSE {"select", "panic"}
    /\ UNCHANGED <<now, cfg, sleep_ts, shutdown, cmd_rx>>
    /\ UNCHANGED <<stateVars, obsVars, cph, cin, cbuf>>

\* Time passes while the scheduler waits, up to what it waits for
AdvanceIo ==
    /\ Waiting
    /\ n_ras + cres.send < MaxChanRAs
    /\ now' = Deadline
    /\ now' > now
    /\ UNCHANGED <<cfg, pc, last_multicast_ra, next_multicast_ra,
                   initial_ras_sent, sleep_ts, out, shutdown, cmd_rx>>
    /\ UNCHANGED <<stateVars, obsVars, codecVars>>

NextIo ==
    \/ SchedStart \/ SchedTick \/ SchedSolicited \/ SchedWake
    \/ SchedSent \/ SchedSendFailed
    \/ RsRecv \/ RsSend \/ RecvFailed
    \/ AdvanceIo
SpecIo == InitIo /\ [][NextIo]_vars

\* C34: after an I/O error on the ICMPv6 socket (a failed receive in the RS
\* receiver or a failed send in the scheduler) the affected task logs the
\* error and keeps running: in the step that reports the error the receiver
\* goes back to recv_from, so that later solicitations are still validated
\* and forwarded, and the scheduler goes back to its select, so that later
\* scheduled RAs are still sent.
C34_IoErrorKeepsRunning ==
    [][/\ cres'.recv > cres.recv => cph' = "recv_from"
       /\ cres'.send > cres.send => pc' = "select"]_vars

\* The half of C34 that concerns the scheduler
C34_SendErrorKeepsRunning ==
    [][cres'.send > cres.send => pc' = "select"]_vars

(***************************************************************************)
(* The schedule after a solicited unicast RA (main.rs:229-234, 312-327).   *)
(***************************************************************************)
\* The step in which a unicast RA has gone out and the loop body ends
EmitsUnicastRA ==
    /\ pc = "send" /\ pc' # "send"
    /\ out.dst # MULTICAST_ALL_NODES
    /\ last_ra'.ra = out

\* C35: emitting a solicited unicast RA does not change the multicast
\* schedule: last_multicast_ra, next_multicast_ra and initial_ras_sent have
\* the same values after the unicast emission as before the
\* SendRouterAdvertisement command was taken from the channel.
C35_UnicastKeepsSchedule ==
    [][EmitsUnicastRA =>
          /\ last_multicast_ra' = last_multicast_ra
          /\ next_multicast_ra' = next_multicast_ra
          /\ initial_ras_sent' = initial_ras_sent]_vars

(***************************************************************************)
(* The assertions of the scheduler task (main.rs:188-189, 322-323).        *)
(***************************************************************************)
\* C36: for every configuration accepted at startup, the scheduler's
\* assertions and preconditions hold in every reachable state: once the
\* task has started, min_rtr_adv_interval <= MIN_DELAY_BETWEEN_RAS and the
\* sampling range [MinRtrAdvInterval, MaxRtrAdvInterval) is not empty, and
\* no assertion on an interval has failed.
C36_SchedulerAssertions ==
    /\ pc # "panic"
    /\ pc # "start" =>
          /\ min_rtr_adv_interval(cfg) <= MIN_DELAY_BETWEEN_RAS
          /\ min_rtr_adv_interval(cfg) < max_rtr_adv_interval(cfg)

\* The range of Uniform::new alone, which every build checks
C36_SamplingRange ==
    pc # "start" => min_rtr_adv_interval(cfg) < max_rtr_adv_interval(cfg)

\* The assertions on the interval alone (main.rs:322-323)
C36_IntervalAssertions ==
    [][(pc = "send" /\ pc' \in {"select", "panic"}) =>
          /\ next_multicast_ra' - next_multicast_ra >= MIN_DELAY_BETWEEN_RAS
          /\ next_multicast_ra' - next_multicast_ra <= MAX_DELAY_BETWEEN_RAS]_vars

(***************************************************************************)
(* The reaper and the prefixes loaded at startup (main.rs:132-160,         *)
(* 356-383).  The tasks are spawned on one runtime, which polls every task *)
(* that can run; the clients are free never to send a request.             *)
(***************************************************************************)
\* Snapshots that hold a prefix with an Until lifetime
BootSnapshots ==
    { { MkPrefix(DocPrefix, 64, LtUntil(2), LtUntil(4)) },
      { MkPrefix(DocPrefix, 64, LtUntil(2), LtUntil(4)),
        MkPrefix(DocPrefix2, 64, LtDuration(1800), LtDuration(3600)) } }

InitBoot ==
    /\ now = 0
    /\ cfg = [min |-> 3, max |-> 1800, mtu |-> 1500]
    /\ pc = "start"
    /\ last_multicast_ra = 0 /\ next_multicast_ra = 0 /\ initial_ras_sent = 0
    /\ sleep_ts = 0 /\ out = NoRA /\ shutdown = FALSE /\ cmd_rx = <<>>
    /\ prefixes \in BootSnapshots
    /\ dns_servers = {}
    /\ config_changed = FALSE
    /\ rpc = "wait" /\ next_prefix_lifetime = <<>> /\ rdeadline = 0
    /\ rclone = {} /\ db = DbOf(prefixes)
    /\ CtlObsIdle
    /\ last_ra = NoneSent /\ prev_mcast = -1 /\ mcast_since_cfg = 0
    /\ zero_mcast = 0 /\ n_final = 0 /\ n_ras = 0 /\ n_rs = 0 /\ n_cfg = 0
    /\ CodecIdle

SpecBoot ==
    /\ InitBoot
    /\ [][NextState]_vars
    /\ WF_vars(ReaperPass) /\ WF_vars(ReaperSend) /\ WF_vars(ReaperSave)
    /\ WF_vars(SchedStart \/ SchedTick \/ SchedNewConfig \/ SchedSent)
    /\ WF_vars(AdvanceState)

\* add_addr was called for the records of the table
AddressesRequested == rpc = "add_addr" \/ n_pass >= 1

\* No prefix with an Until lifetime is in the table
UntilRemoved == \A p \in prefixes : p.valid_lifetime.tag # "Until"

\* C37: prefixes loaded from the persisted snapshot at startup are handled
\* by the reaper without any control request: under fairness their host
\* addresses are eventually requested on the interface, and each such prefix
\* with an Until lifetime is eventually removed from the table after its
\* valid lifetime has run out.
C37_LoadedPrefixesHandled ==
    [](n_ctl = 0) => (<>AddressesRequested /\ <>UntilRemoved)

\* As long as no control request has arrived the reaper is in its first
\* wait, which only a notification ends
C37_ReaperWaitsForRequest ==
    n_ctl = 0 =>
        /\ rpc = "wait" /\ n_pass = 0
        /\ next_prefix_lifetime = <<>> /\ ~config_changed
        /\ prefixes \in BootSnapshots

(***************************************************************************)
(* Prefixes with a relative valid lifetime (lib.rs:271-280,                *)
(* main.rs:270-287, 370-383).                                              *)
(***************************************************************************)
\* The valid lifetime of the record is Duration(d) with d > 0
RelativeValid(p) == p.valid_lifetime.tag = "Duration" /\ p.valid_lifetime.v > 0

\* The step in which the scheduler has built an RA
BuildsRA == pc # "send" /\ pc' = "send"

\* The RA advertises the record with the valid lifetime it was given
Advertised(ra, p) ==
    \E o \in ra.pi :
        /\ o.prefix = p.prefix
        /\ o.prefix_length = p.prefix_length
        /\ o.valid_lifetime = from_secs(p.valid_lifetime.v)

\* The record leaves the table only by a request that names its address
LeavesByRequest(p) ==
    p \notin prefixes' =>
        /\ n_ctl' = n_ctl + 1
        /\ last_req'.kind \in {"AddPrefix", "RemovePrefix"}
        /\ last_req'.prefix.prefix = p.prefix

WireSnapshots ==
    { { MkPrefix(DocPrefix, 64, LtUntil(1), LtUntil(1)) },
      { MkPrefix(DocPrefix, 64, LtUntil(2), LtUntil(4)) } }

InitWire ==
    /\ now = 0
    /\ cfg = [min |-> 3, max |-> 1800, mtu |-> 1500]
    /\ pc = "start"
    /\ last_multicast_ra = 0 /\ next_multicast_ra = 0 /\ initial_ras_sent = 0
    /\ sleep_ts = 0 /\ out = NoRA /\ shutdown = FALSE /\ cmd_rx = <<>>
    /\ prefixes \in WireSnapshots
    /\ dns_servers = {}
    /\ ReaperOff
    /\ last_ra = NoneSent /\ prev_mcast = -1 /\ mcast_since_cfg = 0
    /\ zero_mcast = 0 /\ n_final = 0 /\ n_ras = 0 /\ n_rs = 0 /\ n_cfg = 0
    /\ cph = "recv_from" /\ cin = <<>> /\ cbuf = <<>> /\ cres = <<>>

SpecWire == InitWire /\ [][NextChan]_vars

\* The bytes IcmpOption::encode writes for a PrefixInformation option of the RA
WireOption(o) ==
    IcmpOptionEncode(PrefixInformation(o.prefix_length, o.on_link, o.autonomous,
                                       o.valid_lifetime, o.preferred_lifetime,
                                       o.prefix))

\* The valid-lifetime field: bytes 5 to 8 of the option
WireValidLifetime(o) == get_u32(SubSeq(WireOption(o), 5, 8))

\* C39: no emitted RA carries a PrefixInformation option whose
\* valid-lifetime field on the wire is 0 seconds: a prefix is announced only
\* while its encoded valid lifetime is at least 1 s, also when its remaining
\* valid time is between 0 and 1 s at emission.
C39_NoZeroValidLifetimeOnWire ==
    pc = "send" => \A o \in out.pi : WireValidLifetime(o) >= 1

(***************************************************************************)
(* The option loop of RouterAdvertisement::decode (ndp.rs:158-163), one    *)
(* iteration at a time.                                                    *)
(***************************************************************************)
\* Bytes cut from the end of the options of a datagram
LoopCuts == {0, 1, 3, 5, 20}

\* What follows the fixed part of a received Router Advertisement
LoopBuffers ==
    { Take(b, Max(Len(b) - k, 0)) : b \in RawBodies, k \in LoopCuts }

\* cin is the buffer at the start of the loop, cbuf what remains of it, cres
\* the options pushed and the number of iterations
InitLoop ==
    /\ SchedOff
    /\ cph = "loop"
    /\ cin \in LoopBuffers
    /\ cbuf = cin
    /\ cres = [options |-> <<>>, iters |-> 0]

\* One iteration (ndp.rs:159-162): IcmpOption::decode is called on what
\* remains; an option is pushed, an error is dropped, todo!() panics
LoopIteration ==
    /\ cph = "loop"
    /\ Len(cbuf) > 0
    /\ LET r == IcmpOptionDecode(cbuf)
       IN  IF r.st = "panic"
           THEN \* type and length were read before todo!() (ndp.rs:246-247)
                /\ cph' = "panic"
                /\ cres' = [cres EXCEPT !.iters = @ + 1]
                /\ cbuf' = Drop(cbuf, 2)
           ELSE /\ cph' = "loop"
                /\ cbuf' = r.rest
                /\ cres' = [options |-> cres.options \o r.opt, iters |-> cres.iters + 1]
    /\ UNCHANGED <<cin, schedVars, stateVars, obsVars>>

\* buf.remaining() > 0 is false (ndp.rs:159): the loop is left
LoopExit ==
    /\ cph = "loop"
    /\ Len(cbuf) = 0
    /\ cph' = "decoded"
    /\ UNCHANGED <<cin, cbuf, cres, schedVars, stateVars, obsVars>>

NextLoop == LoopIteration \/ LoopExit

\* The call runs on: every iteration that can be taken is taken
SpecLoop == InitLoop /\ [][NextLoop]_vars /\ WF_vars(NextLoop)

\* An iteration after which the loop goes on has consumed at least one byte
ConsumesAByte ==
    (cph = "loop" /\ cph' = "loop") => Len(cbuf') < Len(cbuf)

\* The options pushed so far stay, in their order
KeepsOptions ==
    /\ Len(cres'.options) >= Len(cres.options)
    /\ SubSeq(cres'.options, 1, Len(cres.options)) = cres.options

\* C40: RouterAdvertisement::decode terminates on every finite byte buffer:
\* each iteration of its option loop consumes at least one byte, also when an
\* option is truncated, has length field 0, or is unknown, so the loop ends
\* after at most as many iterations as the buffer has bytes, and the options
\* decoded before a malformed option are kept in the result.
C40_OptionLoopTerminates ==
    /\ [][ConsumesAByte /\ KeepsOptions]_vars
    /\ [](cres.iters + Len(cbuf) <= Len(cin))
    /\ [](cph = "decoded" => cres.options = DecodeOptions(cin).options)
    /\ <>(cph \in {"decoded", "panic"})

\* A PrefixInformation option followed by an unknown option with length
\* field 0: two iterations, the loop has ended and the prefix is in the result
C40_Witness ==
    /\ cph = "decoded"
    /\ cin = IcmpOptionEncode(PrefixInformation(64, TRUE, TRUE, from_secs(3600),
                                                from_secs(1800), DocPrefix))
             \o <<14, 0>>
    /\ cres.iters = 2
    /\ cres.options = << PrefixInformation(64, TRUE, TRUE, from_secs(3600),
                                           from_secs(1800), DocPrefix) >>

\* A PrefixInformation option cut 5 bytes short after an MTU option: the
\* loop has ended after two iterations and the MTU is in the result
C40_WitnessTruncated ==
    /\ cph = "decoded"
    /\ Len(cin) = 8 + 32 - 5
    /\ cres.iters = 2
    /\ cres.options = << Mtu(1500) >>

====
